---- MODULE Spec2Model ----
(***************************************************************************)
(* Model of P2PFileTransfer (src/lib/p2p.ts, the multi-client revision     *)
(* that starts at line 321): the chunked transfer protocol, the fan-out    *)
(* sendFile with backpressure and completion promises, and the receiver's  *)
(* reassembly in handleIncomingData / assembleFile.                        *)
(*                                                                         *)
(* Every peer is an instance of the same class.  The hub "s" is created    *)
(* with initSender, the leaves with initReceiver(roomId = "s"), so there   *)
(* is one DataConnection between the hub and each leaf, with one end on    *)
(* each side.  A link <<i, p>> is instance i's end of its connection to    *)
(* peer p (conn.peer = p).                                                 *)
(*                                                                         *)
(* Bytes are symbolic: a payload [name, lo, hi] stands for the bytes       *)
(* lo .. hi-1 of the file called name, so CHUNK_SIZE keeps its real value. *)
(* Each instance carries the reading of its clock (now); the clock moves   *)
(* only in SpecClock, in the other specifications everything happens       *)
(* within one millisecond.  startTime and speed are not part of the state. *)
(*                                                                         *)
(* A ClientInfo is named by its peer id: a connection is opened once, so   *)
(* an id never names two ClientInfo objects in one behaviour.              *)
(*                                                                         *)
(* Specifications:                                                         *)
(*   Spec         hub and one leaf, files sent one after the other         *)
(*   SpecFan      hub and three connected leaves, broadcasts               *)
(*   SpecBp       hub and two connected leaves, buffers fill and drain     *)
(*   SpecOverlap  hub and one leaf, overlapping sendFile calls             *)
(*   SpecRx       one receiver handling any message sequence               *)
(*   SpecJoin     sender page: every join sends the selected file          *)
(*   SpecLoopFault  a channel closes or fails during the send loop         *)
(*   SpecLive     one broadcast under fairness, for liveness               *)
(*   SpecUp       a leaf sends to the hub, which has no progress observer  *)
(*   SpecClock    one transfer while the receiver's clock advances         *)
(*   SpecDestroy  hub and one leaf, with joins, faults and destroy()       *)
(*   SpecTwin     two receivers built with different CHUNK_SIZE            *)
(*   SpecMulti    two joiners send files to the host at any time           *)
(*   SpecDup      one call whose targetClientIds names a peer twice        *)
(*   SpecStatus   joins, faults and peer errors around broadcasts          *)
(*   SpecSecond   a peer opens a second channel under the same id          *)
(***************************************************************************)
EXTENDS Integers, Sequences, FiniteSets, TLC

\* ------------------------------------------------------------------------
\* Program constants
\* ------------------------------------------------------------------------
CHUNK_SIZE == 262144

MAX_BUFFERED_AMOUNT == 16777216

\* CHUNK_SIZE of the earlier revision of the class (16 KiB)
CHUNK_SIZE_16K == 16384

\* "Send ACK to sender every 4 chunks"
ACK_EVERY == 4

\* ------------------------------------------------------------------------
\* Bounds of the model
\* ------------------------------------------------------------------------
\* sendFile invocations per instance
MaxCalls == 2

\* messages the peer writes to the receiver in SpecRx
MaxInject == 6

\* channel close and error events in one behaviour
MaxFaults == 1
\* SpecClock: the clock of the receiver runs this many ms past Epoch
MaxElapsed == 104

\* ------------------------------------------------------------------------
\* Peers and links
\* ------------------------------------------------------------------------
Hub == "s"

Leaves == {"r1", "r2", "r3"}

Insts == {Hub} \cup Leaves

Links == {<<Hub, l>> : l \in Leaves} \cup {<<l, Hub>> : l \in Leaves}

\* the hub's end of a second channel that a leaf opens under the same peer id
SecondLinks == {<<Hub, l, 2>> : l \in Leaves}

\* Peers instance i can have a connection with
PeersOf(i) == IF i = Hub THEN Leaves ELSE {Hub}

\* Map iteration order of this.connections (insertion order in the code;
\* the order only fixes the order of sends on different channels)
PeerOrder == <<"r1", "r2", "r3", "s">>

\* ------------------------------------------------------------------------
\* Values
\* ------------------------------------------------------------------------
Null == [null |-> TRUE]

\* targetClientIds omitted
NoIds == <<"undefined">>

\* a hole of the sparse array receivedChunks; new Blob([...]) turns the
\* undefined it reads there into the 9 characters "undefined"
Hole == [name |-> "undefined", lo |-> 0, hi |-> 9]

NoResolve == <<0, 0>>

Min(a, b) == IF a < b THEN a ELSE b

MkFile(n, s) == [name |-> n, size |-> s]

ZeroProgress(total) ==
    [transferred |-> 0, total |-> total, percentage |-> [num |-> 0, den |-> 1]]

\* percentage = (a / b) * 100 is kept as the fraction a / b
Pct(a, b) == [num |-> a, den |-> b]

\* connection is the channel the session holds: 1 is the link <<i, p>>,
\* 2 the second channel <<i, p, 2>> of the same peer
NewClientInfo ==
    [connection |-> 1, progress |-> ZeroProgress(0), completionResolve |-> NoResolve]

\* Date.now() when the objects are constructed, in ms; lastProgressUpdate
\* starts at 0, far in the past
Epoch == 1000

\* the throttle of the receiver's progress notifications, in ms
THROTTLE_MS == 50

VARIABLES
    connState,       \* link -> "new" | "open" | "closed"   (DataConnection.open)
    bufferedAmount,  \* link -> dataChannel.bufferedAmount of that end
    wire,            \* link <<i,p>> -> every message i has written to p, in order
    rcvd,            \* link <<i,p>> -> number of messages of wire[<<p,i>>] handled by i
    inst,            \* instance -> fields of the P2PFileTransfer object
    calls,           \* instance -> its sendFile invocations, in call order
    faults           \* number of close / error events so far

vars == <<connState, bufferedAmount, wire, rcvd, inst, calls, faults>>

\* ------------------------------------------------------------------------
\* Framing
\* ------------------------------------------------------------------------
\* Math.ceil(file.size / CHUNK_SIZE), size >= 0
TotalChunksFloor(size) == size \div CHUNK_SIZE

TotalChunks(size) == (size + CHUNK_SIZE - 1) \div CHUNK_SIZE

MkMetadata(file) ==
    [type |-> "metadata",
     data |-> [name |-> file.name, size |-> file.size,
               totalChunks |-> TotalChunks(file.size)]]

\* file.slice(offset, offset + CHUNK_SIZE): Blob.slice clamps the end to size
ChunkSliceUnclamped(file, offset) ==
    [name |-> file.name, lo |-> offset, hi |-> offset + CHUNK_SIZE]

ChunkSlice(file, offset) ==
    [name |-> file.name, lo |-> offset, hi |-> Min(offset + CHUNK_SIZE, file.size)]

\* a chunk numbered from 1
MkChunkFromOne(file, offset, chunkIndex) ==
    [type |-> "chunk", index |-> chunkIndex + 1, data |-> ChunkSlice(file, offset)]

MkChunk(file, offset, chunkIndex) ==
    [type |-> "chunk", index |-> chunkIndex, data |-> ChunkSlice(file, offset)]

MsgComplete == [type |-> "complete"]

MsgCompleteAck == [type |-> "transfer_complete_ack"]

\* xfer is a history field: the number of 'metadata' messages the receiver
\* had handled when it wrote the ack
MkProgressAck(transferred, xfer) ==
    [type |-> "progress_ack", transferred |-> transferred, xfer |-> xfer]

\* ------------------------------------------------------------------------
\* Receiver: handleIncomingData and assembleFile
\* ------------------------------------------------------------------------
\* receivedChunks is a JS array: element j of the array is position j + 1
PlaceChunkAppend(arr, index, data) == Append(arr, data)

\* this.receivedChunks[data.index] = data.data
PlaceChunk(arr, index, data) ==
    IF index < Len(arr)
    THEN [arr EXCEPT ![index + 1] = data]
    ELSE [j \in 1..(index + 1) |->
            IF j <= Len(arr) THEN arr[j] ELSE IF j = index + 1 THEN data ELSE Hole]

\* assembleFile without its first line
AssembleFileNoGuard(st) ==
    [st EXCEPT !.filesReceived =
                   Append(@, [name |-> IF st.fileMetadata = Null THEN "undefined"
                                       ELSE st.fileMetadata.name,
                              parts |-> st.receivedChunks,
                              xfer |-> st.xfer]),
               !.overallStatus = "completed",
               !.receivedChunks = <<>>,
               !.fileMetadata = Null,
               !.receivedChunkCount = 0]

\* an assembleFile that delivers and keeps the chunk table and the count
AssembleFileKeepsChunks(st) ==
    IF st.fileMetadata = Null THEN st
    ELSE [st EXCEPT !.filesReceived =
                        Append(@, [name |-> st.fileMetadata.name,
                                   parts |-> st.receivedChunks,
                                   xfer |-> st.xfer]),
                    !.overallStatus = "completed",
                    !.fileMetadata = Null]

\* assembleFile(): filesReceived is the log of onFileReceived invocations
AssembleFile(st) ==
    IF st.fileMetadata = Null THEN st
    ELSE [st EXCEPT !.filesReceived =
                        Append(@, [name |-> st.fileMetadata.name,
                                   parts |-> st.receivedChunks,
                                   xfer |-> st.xfer]),
                    !.overallStatus = "completed",
                    !.receivedChunks = <<>>,
                    !.fileMetadata = Null,
                    !.receivedChunkCount = 0]

\* A handler returns the new object state, the messages it writes to the
\* peer's connection and the completion promises it fulfils.
Result(st, out, resolve) == [st |-> st, out |-> out, resolve |-> resolve]

\* a 'metadata' branch that keeps the chunk table and the count
OnMetadataKeepsTable(st, data) ==
    Result([st EXCEPT !.fileMetadata = data.data,
                      !.overallStatus = "transferring",
                      !.xfer = @ + 1],
           <<>>, {})

\* data.type === 'metadata'   (st.xfer counts the transfers begun: history)
OnMetadata(st, data) ==
    Result([st EXCEPT !.fileMetadata = data.data,
                      !.receivedChunks = <<>>,
                      !.receivedChunkCount = 0,
                      !.overallStatus = "transferring",
                      !.xfer = @ + 1],
           <<>>, {})

\* a 'chunk' branch that finds the place of a chunk from the offset of its
\* bytes and the receiver's own CHUNK_SIZE
StoreChunkBySize(st, data) ==
    [st EXCEPT !.receivedChunks = PlaceChunk(@, data.data.lo \div st.chunkSize, data.data),
               !.receivedChunkCount = @ + 1]

\* the first two statements of the 'chunk' branch
StoreChunk(st, data) ==
    [st EXCEPT !.receivedChunks = PlaceChunk(@, data.index, data.data),
               !.receivedChunkCount = @ + 1]

\* this.onProgressChange(clientId, progress): the observer log keeps the
\* number of calls and the last call (history)
Notify(st, clientId, progress) ==
    [st EXCEPT !.notifyCount = @ + 1,
               !.lastNotified = [clientId |-> clientId, progress |-> progress,
                                 at |-> st.now]]

\* the progress record built in the 'chunk' branch; st.chunkSize is the
\* CHUNK_SIZE of the build the receiver runs
ProgressOf(st) ==
    [transferred |-> Min(st.receivedChunkCount * st.chunkSize, st.fileMetadata.size),
     total |-> st.fileMetadata.size,
     percentage |-> Pct(st.receivedChunkCount, st.fileMetadata.totalChunks)]

\* a throttle that lets every chunk notify
NotifyDueAlways(st) == TRUE

\* now - this.lastProgressUpdate > 50 || receivedChunkCount === totalChunks
NotifyDue(st) ==
    \/ st.now - st.lastProgressUpdate > THROTTLE_MS
    \/ st.receivedChunkCount = st.fileMetadata.totalChunks

\* the throttled notification of the 'chunk' branch
NotifyThrottled(st) ==
    IF NotifyDue(st)
    THEN [Notify(st, "", ProgressOf(st)) EXCEPT !.lastProgressUpdate = st.now]
    ELSE st

\* the progress part of the 'chunk' branch with the value the ack carries
ChunkProgressWith(st, peerId, canSend, ackValue) ==
    Result(NotifyThrottled(st),
           IF st.receivedChunkCount % ACK_EVERY = 0 /\ canSend
           THEN <<MkProgressAck(ackValue, st.xfer)>>
           ELSE <<>>,
           {})

\* a progress part that reports the bytes still missing
ChunkProgressRemaining(st, peerId, canSend) ==
    IF st.fileMetadata # Null /\ st.onProgressChange
    THEN ChunkProgressWith(st, peerId, canSend,
                           st.fileMetadata.size - ProgressOf(st).transferred)
    ELSE Result(st, <<>>, {})

\* the progress part of the 'chunk' branch; canSend is
\* sender && sender.connection.open
ChunkProgress(st, peerId, canSend) ==
    IF st.fileMetadata # Null /\ st.onProgressChange
    THEN ChunkProgressWith(st, peerId, canSend, ProgressOf(st).transferred)
    ELSE Result(st, <<>>, {})

\* a 'chunk' branch that assembles as soon as the count reaches totalChunks
OnChunkEager(st, data, peerId, canSend) ==
    LET st1 == StoreChunk(st, data) IN
    IF st1.fileMetadata # Null /\ st1.receivedChunkCount = st1.fileMetadata.totalChunks
    THEN Result(AssembleFile(st1), <<>>, {})
    ELSE ChunkProgress(st1, peerId, canSend)

\* data.type === 'chunk'
OnChunk(st, data, peerId, canSend) ==
    ChunkProgress(StoreChunk(st, data), peerId, canSend)

\* a 'complete' branch that ignores 'complete' while chunks are missing
OnCompleteGuarded(st, peerId, canSend) ==
    IF st.fileMetadata # Null /\ st.receivedChunkCount < st.fileMetadata.totalChunks
    THEN Result(st, <<>>, {})
    ELSE Result(AssembleFile(st), IF canSend THEN <<MsgCompleteAck>> ELSE <<>>, {})

\* a 'complete' branch that assembles and sends no ack
OnCompleteNoAck(st, peerId, canSend) == Result(AssembleFile(st), <<>>, {})

\* data.type === 'complete'
OnComplete(st, peerId, canSend) ==
    Result(AssembleFile(st),
           IF canSend THEN <<MsgCompleteAck>> ELSE <<>>,
           {})

\* this.onProgressChange?.(client.id, client.progress)
NotifyClient(st, peerId) ==
    IF st.onProgressChange
    THEN Notify(st, peerId, st.connections[peerId].progress)
    ELSE st

\* data.type === 'progress_ack'
OnProgressAck(st, data, peerId) ==
    LET client == st.connections[peerId] IN
    IF client # Null
    THEN Result(NotifyClient(
                    [st EXCEPT !.connections[peerId].progress.transferred = data.transferred,
                               !.connections[peerId].progress.percentage =
                                   Pct(data.transferred, client.progress.total),
                               !.lastAck[peerId] = [transferred |-> data.transferred,
                                                    xfer |-> data.xfer]],
                    peerId),
                <<>>, {})
    ELSE Result(st, <<>>, {})

\* data.type === 'transfer_complete_ack'
OnTransferCompleteAck(st, peerId) ==
    LET client == st.connections[peerId] IN
    IF client # Null /\ client.completionResolve # NoResolve
    THEN Result(NotifyClient(
                    [st EXCEPT !.connections[peerId].progress.transferred =
                                   client.progress.total,
                               !.connections[peerId].progress.percentage = Pct(1, 1)],
                    peerId),
                <<>>, {client.completionResolve})
    ELSE Result(st, <<>>, {})

\* handleIncomingData(data, peerId)
HandleIncomingData(st, data, peerId, canSend) ==
    CASE data.type = "metadata" -> OnMetadata(st, data)
      [] data.type = "chunk" -> OnChunk(st, data, peerId, canSend)
      [] data.type = "complete" -> OnComplete(st, peerId, canSend)
      [] data.type = "progress_ack" -> OnProgressAck(st, data, peerId)
      [] data.type = "transfer_complete_ack" -> OnTransferCompleteAck(st, peerId)
      [] OTHER -> Result(st, <<>>, {})

\* ------------------------------------------------------------------------
\* Initial state: the object after construction, all connections new
\* ------------------------------------------------------------------------
\* initReceiver installs onProgressChange, initSender does not; initSender
\* takes the client-connect and client-disconnect observers, initReceiver
\* has none
NewInst(i) ==
    [connections |-> [p \in PeersOf(i) |-> Null],
     peer |-> [id |-> i],
     onClientConnect |-> (i = Hub),
     onClientDisconnect |-> (i = Hub),
     clientLog |-> <<>>,
     overallStatus |-> IF i = Hub THEN "idle" ELSE "connecting",
     pendingFile |-> Null,
     onProgressChange |-> (i # Hub),
     receivedChunks |-> <<>>,
     fileMetadata |-> Null,
     receivedChunkCount |-> 0,
     filesReceived |-> <<>>,
     xfer |-> 0,
     lastAck |-> [p \in PeersOf(i) |-> Null],
     chunkSize |-> CHUNK_SIZE,
     now |-> Epoch,
     lastProgressUpdate |-> 0,
     notifyCount |-> 0,
     lastNotified |-> Null]

\* the peers of i whose channel has fired 'open', in the order they joined
OpenPeers(i, open) ==
    LET IsOpen(p) == <<i, p>> \in open IN SelectSeq(PeerOrder, IsOpen)

\* the objects after construction, with the channels of open already
\* opened; build[i] is the CHUNK_SIZE of the build that i runs
InitBuilds(open, build) ==
    /\ connState = [l \in Links \cup SecondLinks |->
                       IF l \in open THEN "open" ELSE "new"]
    /\ bufferedAmount = [l \in Links |-> 0]
    /\ wire = [l \in Links |-> <<>>]
    /\ rcvd = [l \in Links |-> 0]
    /\ inst = [i \in Insts |->
                 [NewInst(i) EXCEPT
                    !.connections = [p \in PeersOf(i) |->
                                       IF <<i, p>> \in open THEN NewClientInfo ELSE Null],
                    !.chunkSize = build[i],
                    !.clientLog = IF NewInst(i).onClientConnect
                                  THEN [x \in 1..Len(OpenPeers(i, open)) |->
                                          <<"connect", OpenPeers(i, open)[x]>>]
                                  ELSE @,
                    !.overallStatus = IF \E p \in PeersOf(i) : <<i, p>> \in open
                                      THEN "connected" ELSE @]]
    /\ calls = [i \in Insts |-> <<>>]
    /\ faults = 0

\* every object runs the current build
InitWith(open) == InitBuilds(open, [i \in Insts |-> CHUNK_SIZE])

Init == InitWith({})

\* ------------------------------------------------------------------------
\* Connection events: setupConnection
\* ------------------------------------------------------------------------
Registered(i) == {p \in PeersOf(i) : inst[i].connections[p] # Null}

\* the handler of 'open': the session is created and the client-connect
\* observer, where installed, is called with the peer id
OnOpen(st, p) ==
    [st EXCEPT !.connections[p] = NewClientInfo,
               !.clientLog = IF st.onClientConnect
                             THEN Append(@, <<"connect", p>>) ELSE @,
               !.overallStatus =
                   IF @ # "transferring" /\ @ # "completed" THEN "connected" ELSE @]

\* the part 'close' and 'error' share: connections.delete(conn.peer),
\* onClientDisconnect?.(conn.peer), and the status when no session is left
DropSession(st, p, status) ==
    [st EXCEPT !.connections[p] = Null,
               !.clientLog = IF st.onClientDisconnect
                             THEN Append(@, <<"disconnect", p>>) ELSE @,
               !.overallStatus =
                   IF (\A q \in DOMAIN st.connections : q = p \/ st.connections[q] = Null)
                      /\ @ # "completed"
                   THEN status ELSE @]

\* a handler of 'close' that sets the status whatever it was
OnCloseAlwaysIdle(st, p) ==
    [st EXCEPT !.connections[p] = Null,
               !.clientLog = IF st.onClientDisconnect
                             THEN Append(@, <<"disconnect", p>>) ELSE @,
               !.overallStatus =
                   IF \A q \in DOMAIN st.connections : q = p \/ st.connections[q] = Null
                   THEN "idle" ELSE @]

\* a handler of 'error' that keeps the session
OnErrorKeepsSession(st, p) == st

\* the handler of 'error'
OnError(st, p) == DropSession(st, p, "error")

\* the handler of 'close'
OnClose(st, p) == DropSession(st, p, "idle")

\* conn.on('open')
ChannelOpen(i, p) ==
    /\ connState[<<i, p>>] = "new"
    /\ connState' = [connState EXCEPT ![<<i, p>>] = "open"]
    /\ inst' = [inst EXCEPT ![i] = OnOpen(@, p)]
    /\ UNCHANGED <<bufferedAmount, wire, rcvd, calls, faults>>

\* conn.on('error'): the handler does not close the connection
ChannelError(i, p) ==
    /\ connState[<<i, p>>] = "open"
    /\ faults < MaxFaults
    /\ faults' = faults + 1
    /\ inst' = [inst EXCEPT ![i] = OnError(@, p)]
    /\ UNCHANGED <<connState, bufferedAmount, wire, rcvd, calls>>

\* conn.on('close'); conn.open is false from here on
ChannelClose(i, p) ==
    /\ connState[<<i, p>>] = "open"
    /\ faults < MaxFaults
    /\ faults' = faults + 1
    /\ connState' = [connState EXCEPT ![<<i, p>>] = "closed"]
    /\ inst' = [inst EXCEPT ![i] = OnClose(@, p)]
    /\ UNCHANGED <<bufferedAmount, wire, rcvd, calls>>

\* conn.on('open') of a second channel of peer p, opened after the first:
\* the same handler, so connections.set(conn.peer, clientInfo) replaces
\* the entry of p by a session that holds the second channel
SecondOpen(i, p) ==
    /\ connState[<<i, p>>] # "new"
    /\ connState[<<i, p, 2>>] = "new"
    /\ connState' = [connState EXCEPT ![<<i, p, 2>>] = "open"]
    /\ inst' = [inst EXCEPT ![i] = [OnOpen(@, p) EXCEPT !.connections[p].connection = 2]]
    /\ UNCHANGED <<bufferedAmount, wire, rcvd, calls, faults>>

\* conn.on('error') of the second channel: connections.delete(conn.peer)
SecondError(i, p) ==
    /\ connState[<<i, p, 2>>] = "open"
    /\ faults < MaxFaults
    /\ faults' = faults + 1
    /\ inst' = [inst EXCEPT ![i] = OnError(@, p)]
    /\ UNCHANGED <<connState, bufferedAmount, wire, rcvd, calls>>

\* conn.on('close') of the second channel: connections.delete(conn.peer)
SecondClose(i, p) ==
    /\ connState[<<i, p, 2>>] = "open"
    /\ faults < MaxFaults
    /\ faults' = faults + 1
    /\ connState' = [connState EXCEPT ![<<i, p, 2>>] = "closed"]
    /\ inst' = [inst EXCEPT ![i] = OnClose(@, p)]
    /\ UNCHANGED <<bufferedAmount, wire, rcvd, calls>>

\* peer.on('error'): the error observer is called and the status becomes
\* 'error', whatever it was; the channels are not touched by the handler
PeerError(i) ==
    /\ inst[i].peer # Null
    /\ faults < MaxFaults
    /\ faults' = faults + 1
    /\ inst' = [inst EXCEPT ![i].overallStatus = "error"]
    /\ UNCHANGED <<connState, bufferedAmount, wire, rcvd, calls>>

RECURSIVE CloseEach(_, _)
\* connections.forEach(client => client.connection.close()) where close()
\* calls the 'close' handler before it returns
CloseEach(st, ps) ==
    IF ps = <<>> THEN st ELSE CloseEach(OnClose(st, Head(ps)), Tail(ps))

\* destroy(): every session's channel is closed, the registry and
\* pendingFile are cleared and the peer is destroyed, which closes whatever
\* connection of the peer is left.  Whether close() calls the 'close'
\* handler before it returns is the channel collaborator's affair
\* (emits): both outcomes are possible.  The completion promises of the
\* calls in progress are not touched.
Destroy(i, emits) ==
    /\ inst[i].peer # Null
    /\ LET IsRegistered(p) == p \in Registered(i)
           st == IF emits
                 THEN CloseEach(inst[i], SelectSeq(PeerOrder, IsRegistered))
                 ELSE inst[i]
       IN  inst' = [inst EXCEPT ![i] =
                      [st EXCEPT !.connections = [p \in DOMAIN @ |-> Null],
                                 !.pendingFile = Null,
                                 !.peer = Null]]
    /\ connState' = [l \in DOMAIN connState |->
                        IF l[1] = i THEN "closed" ELSE connState[l]]
    /\ UNCHANGED <<bufferedAmount, wire, rcvd, calls, faults>>

\* dataChannel.bufferedAmount belongs to the channel collaborator, which
\* queues what connection.send hands it and drains on its own schedule: the
\* metric may move to any of these levels between two steps of the code
BufferLevels == {0, MAX_BUFFERED_AMOUNT, MAX_BUFFERED_AMOUNT + 1}

BufferedAmountChange(i, p, v) ==
    /\ connState[<<i, p>>] = "open"
    /\ bufferedAmount[<<i, p>>] # v
    /\ bufferedAmount' = [bufferedAmount EXCEPT ![<<i, p>>] = v]
    /\ UNCHANGED <<connState, wire, rcvd, inst, calls, faults>>

\* conn.on('data'): handleIncomingData(data, conn.peer) on the next message
Data(i, p) ==
    /\ connState[<<i, p>>] = "open"
    /\ rcvd[<<i, p>>] < Len(wire[<<p, i>>])
    /\ LET data == wire[<<p, i>>][rcvd[<<i, p>>] + 1]
           canSend == inst[i].connections[p] # Null /\ connState[<<i, p>>] = "open"
           r == HandleIncomingData(inst[i], data, p, canSend)
       IN  /\ inst' = [inst EXCEPT ![i] = r.st]
           /\ wire' = [wire EXCEPT ![<<i, p>>] = @ \o r.out]
           /\ calls' = [calls EXCEPT ![i] =
                          [k \in DOMAIN @ |->
                             [@[k] EXCEPT !.resolved =
                                [x \in DOMAIN @ |-> @[x] \/ <<k, x>> \in r.resolve]]]]
    /\ rcvd' = [rcvd EXCEPT ![<<i, p>>] = @ + 1]
    /\ UNCHANGED <<connState, bufferedAmount, faults>>

\* ------------------------------------------------------------------------
\* sendFile
\* ------------------------------------------------------------------------
RECURSIVE SelectRegistered(_, _)
\* targetClientIds.map(id => this.connections.get(id)).filter(c => c !== undefined)
SelectRegistered(ids, reg) ==
    IF ids = <<>> THEN <<>>
    ELSE (IF Head(ids) \in reg THEN <<Head(ids)>> ELSE <<>>)
         \o SelectRegistered(Tail(ids), reg)

\* the targets array: a ClientInfo is named by its peer id
Targets(i, ids) ==
    IF ids = NoIds THEN SelectRegistered(PeerOrder, Registered(i))
    ELSE SelectRegistered(ids, Registered(i))

\* a forEach that stops at the first target whose channel is not open
SendAllStopsAtClosed(w, i, targets, msg) ==
    LET closed == {x \in DOMAIN targets : connState[<<i, targets[x]>>] # "open"}
        cut == IF closed = {} THEN Len(targets) + 1
               ELSE CHOOSE x \in closed : \A y \in closed : x <= y
    IN  [l \in DOMAIN w |->
           IF l[1] = i /\ \E x \in 1..(cut - 1) : targets[x] = l[2]
           THEN Append(w[l], msg) ELSE w[l]]

RECURSIVE SendAll(_, _, _, _)
\* targets.forEach(client => { if (client.connection.open) client.connection.send(msg) })
SendAll(w, i, targets, msg) ==
    IF targets = <<>> THEN w
    ELSE LET t == Head(targets)
             w1 == IF connState[<<i, t>>] = "open"
                   THEN [w EXCEPT ![<<i, t>>] = Append(@, msg)] ELSE w
         IN  SendAll(w1, i, Tail(targets), msg)

InTargets(targets, t) == \E x \in DOMAIN targets : targets[x] = t

LastIndexOf(targets, t) ==
    CHOOSE x \in DOMAIN targets :
        targets[x] = t /\ \A y \in DOMAIN targets : targets[y] = t => y <= x

\* a backpressure check that also looks at the targets whose channel is
\* not open
CanSendCountsClosed(i, targets) ==
    \A x \in DOMAIN targets :
        ~(bufferedAmount[<<i, targets[x]>>] > MAX_BUFFERED_AMOUNT)

\* the backpressure check at the head of the while loop, without the test
CanSendNoCheck(i, targets) == TRUE

\* canSend after the for loop at the head of the while loop
CanSend(i, targets) ==
    \A x \in DOMAIN targets :
        connState[<<i, targets[x]>>] = "open"
            => ~(bufferedAmount[<<i, targets[x]>>] > MAX_BUFFERED_AMOUNT)

\* a completion wait that is over when all but one promise are fulfilled
PromiseAllButOne(resolved) ==
    Cardinality({x \in DOMAIN resolved : ~resolved[x]}) <= 1

\* a completion wait that is over when the first promise is fulfilled
PromiseAny(resolved) == \E x \in DOMAIN resolved : resolved[x]

\* Promise.all(completionPromises) is fulfilled
PromiseAll(resolved) == \A x \in DOMAIN resolved : resolved[x]

NewCall(file, ids, targets, pc, snapshot) ==
    [pc |-> pc, file |-> file, ids |-> ids, targets |-> targets,
     offset |-> 0, chunkIndex |-> 0,
     resolved |-> [x \in DOMAIN targets |-> FALSE],
     rcvdAtStart |-> snapshot]

InProgress(i) ==
    \E k \in DOMAIN calls[i] : calls[i][k].pc \in {"sleep", "read", "poll", "await"}

\* a no-target branch that throws without recording the file
NoTargetsForgetsFile(st, file, ids) ==
    [st |-> st, pc |-> IF ids = NoIds THEN "rejected" ELSE "returned"]

\* if (targets.length === 0): throw after storing the file when
\* targetClientIds is omitted ("rejected"), otherwise a plain return
NoTargets(st, file, ids) ==
    IF ids = NoIds
    THEN [st |-> [st EXCEPT !.pendingFile = file], pc |-> "rejected"]
    ELSE [st |-> st, pc |-> "returned"]

\* sendFile(file, targetClientIds) up to its first await, called on the
\* object in state st
SendFileFrom(i, st, file, ids) ==
    /\ Len(calls[i]) < MaxCalls
    /\ LET targets == Targets(i, ids)
           snapshot == [p \in PeersOf(i) |-> rcvd[<<i, p>>]]
           none == NoTargets(st, file, ids)
       IN  IF targets = <<>>
           THEN /\ calls' = [calls EXCEPT ![i] =
                               Append(@, NewCall(file, ids, targets, none.pc, snapshot))]
                /\ inst' = [inst EXCEPT ![i] = none.st]
                /\ UNCHANGED wire
           ELSE /\ calls' = [calls EXCEPT ![i] =
                               Append(@, NewCall(file, ids, targets, "sleep", snapshot))]
                /\ wire' = SendAll(wire, i, targets, MkMetadata(file))
                /\ inst' = [inst EXCEPT
                              ![i] = [st EXCEPT
                                  !.overallStatus = "transferring",
                                  !.connections =
                                      [p \in DOMAIN @ |->
                                         IF InTargets(targets, p) /\ connState[<<i, p>>] = "open"
                                         THEN [@[p] EXCEPT !.progress = ZeroProgress(file.size)]
                                         ELSE @[p]]]]
    /\ UNCHANGED <<connState, bufferedAmount, rcvd, faults>>

\* the send handler of the pages: p2pRef.current['onProgressChange'] = ...,
\* then await p2pRef.current.sendFile(file)
SendFile(i, file, ids) ==
    SendFileFrom(i, [inst[i] EXCEPT !.onProgressChange = TRUE], file, ids)

\* One pass from the while condition to the next await: the backpressure
\* poll, the read of the next chunk, or (after the loop) the 'complete'
\* messages and the wait for the completion promises
LoopHead(i, c, w) ==
    IF c.offset < c.file.size
    THEN [call |-> [c EXCEPT !.pc = IF CanSend(i, c.targets) THEN "read" ELSE "poll"],
          wire |-> w]
    ELSE [call |-> [c EXCEPT !.pc = "await"],
          wire |-> SendAll(w, i, c.targets, MsgComplete)]

\* a sendFile that creates its promises without storing the resolvers
StoreResolversNowhere(conns, k, targets) == conns

\* completionPromises = targets.map(client => new Promise(resolve =>
\* { client.completionResolve = resolve })): the resolver of promise x of
\* call k is named <<k, x>>
StoreResolvers(conns, k, targets) ==
    [p \in DOMAIN conns |->
       IF InTargets(targets, p) /\ conns[p] # Null
       THEN [conns[p] EXCEPT !.completionResolve = <<k, LastIndexOf(targets, p)>>]
       ELSE conns[p]]

\* after the 100 ms wait: the completion promises, then the loop
SendFileAfterWait(i, k) ==
    /\ k \in DOMAIN calls[i]
    /\ calls[i][k].pc = "sleep"
    /\ LET c == calls[i][k]
           r == LoopHead(i, c, wire)
       IN  /\ calls' = [calls EXCEPT ![i][k] = r.call]
           /\ wire' = r.wire
           /\ inst' = [inst EXCEPT ![i].connections = StoreResolvers(@, k, c.targets)]
    /\ UNCHANGED <<connState, bufferedAmount, rcvd, faults>>

\* after the 5 ms wait of the backpressure poll: continue
SendFileAfterPoll(i, k) ==
    /\ k \in DOMAIN calls[i]
    /\ calls[i][k].pc = "poll"
    /\ LET r == LoopHead(i, calls[i][k], wire)
       IN  /\ calls' = [calls EXCEPT ![i][k] = r.call]
           /\ wire' = r.wire
    /\ UNCHANGED <<connState, bufferedAmount, rcvd, inst, faults>>

\* after chunk.arrayBuffer(): send the chunk to the targets, advance, loop
SendFileAfterRead(i, k) ==
    /\ k \in DOMAIN calls[i]
    /\ calls[i][k].pc = "read"
    /\ LET c == calls[i][k]
           w1 == SendAll(wire, i, c.targets, MkChunk(c.file, c.offset, c.chunkIndex))
           c1 == [c EXCEPT !.offset = @ + CHUNK_SIZE, !.chunkIndex = @ + 1]
           r == LoopHead(i, c1, w1)
       IN  /\ calls' = [calls EXCEPT ![i][k] = r.call]
           /\ wire' = r.wire
    /\ UNCHANGED <<connState, bufferedAmount, rcvd, inst, faults>>

\* a completion that clears pendingFile whatever the call was
PendingClearedAlways(st, ids) == Null

\* if (!targetClientIds) this.pendingFile = null
PendingAfterCompletion(st, ids) == IF ids = NoIds THEN Null ELSE st.pendingFile

\* after await Promise.all(completionPromises)
SendFileAfterAcks(i, k) ==
    /\ k \in DOMAIN calls[i]
    /\ calls[i][k].pc = "await"
    /\ PromiseAll(calls[i][k].resolved)
    /\ calls' = [calls EXCEPT ![i][k].pc = "done"]
    /\ inst' = [inst EXCEPT
                  ![i].overallStatus = "completed",
                  ![i].pendingFile = PendingAfterCompletion(inst[i], calls[i][k].ids)]
    /\ UNCHANGED <<connState, bufferedAmount, wire, rcvd, faults>>

SendFileStep(i, k) ==
    \/ SendFileAfterWait(i, k)
    \/ SendFileAfterPoll(i, k)
    \/ SendFileAfterRead(i, k)
    \/ SendFileAfterAcks(i, k)

\* ------------------------------------------------------------------------
\* Spec: the hub and one leaf; the user sends files one after the other
\* ------------------------------------------------------------------------
OneLeaf == {"r1"}

\* S in {0, 1, C-1, C, C+1, 10*C+7}, and 600 KiB
SizesSeq ==
    {0, 1, CHUNK_SIZE - 1, CHUNK_SIZE, CHUNK_SIZE + 1, 10 * CHUNK_SIZE + 7, 600 * 1024}

IdsSeq == {NoIds, <<"r1">>}

\* the content of the k-th file the user picks is named after k
FileNames == <<"a", "b", "c", "d">>

NextFileName(i) == FileNames[Len(calls[i]) + 1]

\* the user picks a size for the first file; a later file has the same size
NextSizes(i) == IF calls[i] = <<>> THEN SizesSeq ELSE {calls[i][1].file.size}

\* the user calls sendFile when no earlier call is in progress
SendFileWhenIdle(i) ==
    /\ ~InProgress(i)
    /\ \E s \in NextSizes(i), ids \in IdsSeq :
          SendFile(i, MkFile(NextFileName(i), s), ids)

\* congested or drained
TwoLevels == {0, MAX_BUFFERED_AMOUNT + 1}

Next ==
    \/ \E l \in OneLeaf :
          \/ ChannelOpen(Hub, l) \/ ChannelOpen(l, Hub)
          \/ ChannelClose(Hub, l) \/ ChannelClose(l, Hub)
          \/ ChannelError(Hub, l) \/ ChannelError(l, Hub)
          \/ Data(Hub, l) \/ Data(l, Hub)
          \/ \E v \in TwoLevels : BufferedAmountChange(Hub, l, v)
    \/ SendFileWhenIdle(Hub)
    \/ \E k \in 1..MaxCalls : SendFileStep(Hub, k)

Spec == Init /\ [][Next]_vars

TypeOK ==
    /\ \A l \in Links : connState[l] \in {"new", "open", "closed"}
    /\ \A l \in Links : rcvd[l] <= Len(wire[<<l[2], l[1]>>])
    /\ \A i \in Insts : Len(calls[i]) <= MaxCalls

\* ------------------------------------------------------------------------
\* SpecRx: leaf r1, connected, handles whatever its peer writes
\* ------------------------------------------------------------------------
\* a file of three chunks
FileRx == MkFile("a", 2 * CHUNK_SIZE + 1)

\* the messages the peer may write: the metadata of FileRx, each of its
\* chunks, and 'complete', in any order and any number of times
MsgsRx ==
    {MkMetadata(FileRx), MsgComplete}
        \cup {MkChunk(FileRx, x * CHUNK_SIZE, x) : x \in 0..(TotalChunks(FileRx.size) - 1)}

\* the peer writes a message once the receiver has handled the previous one
PeerSends(p, i, msg) ==
    /\ connState[<<p, i>>] = "open"
    /\ Len(wire[<<p, i>>]) < MaxInject
    /\ rcvd[<<i, p>>] = Len(wire[<<p, i>>])
    /\ wire' = [wire EXCEPT ![<<p, i>>] = Append(@, msg)]
    /\ UNCHANGED <<connState, bufferedAmount, rcvd, inst, calls, faults>>

InitRx == InitWith({<<"r1", Hub>>, <<Hub, "r1">>})

NextRx ==
    \/ \E msg \in MsgsRx : PeerSends(Hub, "r1", msg)
    \/ Data("r1", Hub)

SpecRx == InitRx /\ [][NextRx]_vars

\* ------------------------------------------------------------------------
\* SpecOverlap: the hub and leaf r1, connected; sendFile may be called
\* while an earlier call is still in progress
\* ------------------------------------------------------------------------
SizesSmall == {0, 1}

\* no chunk, one chunk, five chunks
SizesOverlap == {0, 1, 4 * CHUNK_SIZE + 1}

SendFileAnyTime(i) ==
    \E s \in SizesOverlap : SendFile(i, MkFile(NextFileName(i), s), NoIds)

InitOverlap == InitWith({<<"r1", Hub>>, <<Hub, "r1">>})

NextOverlap ==
    \/ SendFileAnyTime(Hub)
    \/ \E k \in 1..MaxCalls :
          \/ SendFileAfterWait(Hub, k)
          \/ SendFileAfterRead(Hub, k)
          \/ SendFileAfterAcks(Hub, k)
    \/ Data(Hub, "r1")
    \/ Data("r1", Hub)

SpecOverlap == InitOverlap /\ [][NextOverlap]_vars

\* ------------------------------------------------------------------------
\* SpecFan: the hub and three connected leaves; one broadcast after the
\* other, channels may close or fail, no channel is congested
\* ------------------------------------------------------------------------
SendFileToAll(i) ==
    /\ ~InProgress(i)
    /\ \E s \in SizesSmall : SendFile(i, MkFile(NextFileName(i), s), NoIds)

InitFan == InitWith(Links)

NextFan ==
    \/ SendFileToAll(Hub)
    \/ \E k \in 1..MaxCalls :
          \/ SendFileAfterWait(Hub, k)
          \/ SendFileAfterRead(Hub, k)
          \/ SendFileAfterAcks(Hub, k)
    \/ \E l \in Leaves :
          \/ Data(Hub, l) \/ Data(l, Hub)
          \/ ChannelClose(Hub, l) \/ ChannelClose(l, Hub)
          \/ ChannelError(Hub, l) \/ ChannelError(l, Hub)

SpecFan == InitFan /\ [][NextFan]_vars

\* ------------------------------------------------------------------------
\* SpecBp: the hub and two connected leaves; one broadcast of two chunks
\* while the buffers of the hub's channels fill and drain
\* ------------------------------------------------------------------------
TwoLeaves == {"r1", "r2"}

SizesBp == {CHUNK_SIZE + 1}

SendFileOnce(i) ==
    /\ calls[i] = <<>>
    /\ \E s \in SizesBp : SendFile(i, MkFile(NextFileName(i), s), NoIds)

InitBp == InitWith({<<Hub, l>> : l \in TwoLeaves} \cup {<<l, Hub>> : l \in TwoLeaves})

NextBp ==
    \/ SendFileOnce(Hub)
    \/ \E k \in 1..MaxCalls : SendFileStep(Hub, k)
    \/ \E l \in TwoLeaves :
          \/ Data(Hub, l) \/ Data(l, Hub)
          \/ ChannelClose(Hub, l)
          \/ \E v \in BufferLevels : BufferedAmountChange(Hub, l, v)

SpecBp == InitBp /\ [][NextBp]_vars

\* ------------------------------------------------------------------------
\* SpecJoin: the sender page.  The user has selected one file; two leaves
\* join at any time, and the client-connect observer of every join calls
\* sendFileToClients(selectedFile) after 500 ms, whatever is in progress
\* ------------------------------------------------------------------------
\* a file of two chunks
SelectedFile == MkFile("a", CHUNK_SIZE + 1)

\* the sessions instance i has registered so far (onClientConnect calls)
Joined(i) == {p \in PeersOf(i) : connState[<<i, p>>] # "new"}

\* the timer of a join fires: sendFileToClients -> sendFile(selectedFile)
SendFileOnConnect(i) ==
    /\ Len(calls[i]) < Cardinality(Joined(i))
    /\ SendFile(i, SelectedFile, NoIds)

InitJoin == InitWith({})

NextJoin ==
    \/ SendFileOnConnect(Hub)
    \/ \E k \in 1..MaxCalls :
          \/ SendFileAfterWait(Hub, k)
          \/ SendFileAfterRead(Hub, k)
          \/ SendFileAfterAcks(Hub, k)
    \/ \E l \in TwoLeaves :
          \/ ChannelOpen(Hub, l) \/ ChannelOpen(l, Hub)
          \/ Data(Hub, l) \/ Data(l, Hub)

SpecJoin == InitJoin /\ [][NextJoin]_vars

\* ------------------------------------------------------------------------
\* SpecLoopFault: the hub and two connected leaves; one broadcast of two
\* chunks; a channel of the hub closes or fails while the call is in its
\* send loop
\* ------------------------------------------------------------------------
InSendLoop(i) == \E k \in DOMAIN calls[i] : calls[i][k].pc \in {"read", "poll"}

ChannelCloseInLoop(i, p) == InSendLoop(i) /\ ChannelClose(i, p)

ChannelErrorInLoop(i, p) == InSendLoop(i) /\ ChannelError(i, p)

InitLoopFault == InitBp

NextLoopFault ==
    \/ SendFileOnce(Hub)
    \/ \E k \in 1..MaxCalls :
          \/ SendFileAfterWait(Hub, k)
          \/ SendFileAfterRead(Hub, k)
          \/ SendFileAfterAcks(Hub, k)
    \/ \E l \in TwoLeaves :
          \/ Data(Hub, l) \/ Data(l, Hub)
          \/ ChannelCloseInLoop(Hub, l)
          \/ ChannelErrorInLoop(Hub, l)

SpecLoopFault == InitLoopFault /\ [][NextLoopFault]_vars

\* ------------------------------------------------------------------------
\* SpecLive: the hub and two connected leaves, one broadcast; the channels
\* stay open; the buffer of a channel fills as the sender is about to write
\* and always drains again; timers fire, reads complete and messages are
\* delivered
\* ------------------------------------------------------------------------
SizesLive == {0, CHUNK_SIZE + 1}

SendFileLive(i) ==
    /\ calls[i] = <<>>
    /\ \E s \in SizesLive : SendFile(i, MkFile(NextFileName(i), s), NoIds)

\* the metric goes above the mark only through what the sender writes
BufferFill(i, p) ==
    /\ \E k \in DOMAIN calls[i] : calls[i][k].pc = "read"
    /\ BufferedAmountChange(i, p, MAX_BUFFERED_AMOUNT + 1)

BufferDrain(i, p) == BufferedAmountChange(i, p, 0)

InitLive == InitBp

NextLive ==
    \/ SendFileLive(Hub)
    \/ \E k \in 1..MaxCalls : SendFileStep(Hub, k)
    \/ \E l \in TwoLeaves :
          \/ Data(Hub, l) \/ Data(l, Hub)
          \/ BufferFill(Hub, l) \/ BufferDrain(Hub, l)

FairLive ==
    /\ \A k \in 1..MaxCalls : WF_vars(SendFileStep(Hub, k))
    /\ \A l \in TwoLeaves :
          /\ WF_vars(Data(Hub, l))
          /\ WF_vars(Data(l, Hub))
          /\ WF_vars(BufferDrain(Hub, l))

SpecLive == InitLive /\ [][NextLive]_vars /\ FairLive

\* ------------------------------------------------------------------------
\* SpecUp: the joiner r1 sends files to the host, whose object is as
\* initSender leaves it (no progress observer assigned)
\* ------------------------------------------------------------------------
\* five chunks, and eight chunks with a full last chunk
SizesUp == {4 * CHUNK_SIZE + 1, 8 * CHUNK_SIZE}

\* the joiner sends a file when no earlier call is in progress
SendFileUp(i) ==
    /\ ~InProgress(i)
    /\ \E s \in SizesUp : SendFile(i, MkFile(NextFileName(i), s), NoIds)

InitUp == InitWith({<<"r1", Hub>>, <<Hub, "r1">>})

NextUp ==
    \/ SendFileUp("r1")
    \/ \E k \in 1..MaxCalls :
          \/ SendFileAfterWait("r1", k)
          \/ SendFileAfterRead("r1", k)
          \/ SendFileAfterAcks("r1", k)
    \/ Data(Hub, "r1")
    \/ Data("r1", Hub)

SpecUp == InitUp /\ [][NextUp]_vars

\* ------------------------------------------------------------------------
\* SpecClock: the hub sends one file of four chunks to r1 while the clock of
\* r1 advances
\* ------------------------------------------------------------------------
SizesClock == {3 * CHUNK_SIZE + 1}

\* the clock advances between two handlers by one of these amounts, so that
\* gaps of 50, 51 and 52 ms between two chunks all occur
TickSteps == {25, 26}

\* time passes at i
Tick(i, d) ==
    /\ inst[i].now + d <= Epoch + MaxElapsed
    /\ inst' = [inst EXCEPT ![i].now = @ + d]
    /\ UNCHANGED <<connState, bufferedAmount, wire, rcvd, calls, faults>>

SendFileClock(i) ==
    /\ calls[i] = <<>>
    /\ \E s \in SizesClock : SendFile(i, MkFile(NextFileName(i), s), NoIds)

InitClock == InitWith({<<"r1", Hub>>, <<Hub, "r1">>})

NextClock ==
    \/ SendFileClock(Hub)
    \/ \E k \in 1..MaxCalls :
          \/ SendFileAfterWait(Hub, k)
          \/ SendFileAfterRead(Hub, k)
          \/ SendFileAfterAcks(Hub, k)
    \/ Data(Hub, "r1")
    \/ Data("r1", Hub)
    \/ \E d \in TickSteps : Tick("r1", d)

SpecClock == InitClock /\ [][NextClock]_vars

\* ------------------------------------------------------------------------
\* SpecDestroy: the hub and one leaf; the user sends small files, to
\* everyone or to r1, one after the other, and the page may be left at any
\* time, which disposes of the hub's object
\* ------------------------------------------------------------------------
SendFileSmall(i) ==
    /\ ~InProgress(i)
    /\ \E s \in SizesSmall, ids \in IdsSeq :
          SendFile(i, MkFile(NextFileName(i), s), ids)

\* the cleanup of the page's effect
Unmount(i) == \E emits \in BOOLEAN : Destroy(i, emits)

InitDestroy == InitWith({})

NextDestroy ==
    \/ SendFileSmall(Hub)
    \/ \E k \in 1..MaxCalls :
          \/ SendFileAfterWait(Hub, k)
          \/ SendFileAfterRead(Hub, k)
          \/ SendFileAfterAcks(Hub, k)
    \/ ChannelOpen(Hub, "r1")
    \/ ChannelOpen("r1", Hub)
    \/ Data(Hub, "r1")
    \/ Data("r1", Hub)
    \/ ChannelClose(Hub, "r1")
    \/ ChannelError(Hub, "r1")
    \/ Unmount(Hub)

SpecDestroy == InitDestroy /\ [][NextDestroy]_vars

\* ------------------------------------------------------------------------
\* SpecTwin: the hub sends one file of five chunks to r1 and r2, which
\* differ only in the CHUNK_SIZE of their build
\* ------------------------------------------------------------------------
SizesTwin == {4 * CHUNK_SIZE + 1}

SendFileTwin(i) ==
    /\ calls[i] = <<>>
    /\ \E s \in SizesTwin : SendFile(i, MkFile(NextFileName(i), s), NoIds)

InitTwin ==
    InitBuilds({<<Hub, l>> : l \in TwoLeaves} \cup {<<l, Hub>> : l \in TwoLeaves},
               [i \in Insts |-> IF i = "r2" THEN CHUNK_SIZE_16K ELSE CHUNK_SIZE])

NextTwin ==
    \/ SendFileTwin(Hub)
    \/ \E k \in 1..MaxCalls :
          \/ SendFileAfterWait(Hub, k)
          \/ SendFileAfterRead(Hub, k)
          \/ SendFileAfterAcks(Hub, k)
    \/ \E l \in TwoLeaves : Data(Hub, l) \/ Data(l, Hub)

SpecTwin == InitTwin /\ [][NextTwin]_vars

\* ------------------------------------------------------------------------
\* SpecMulti: the host of a room with two joiners; each joiner sends the
\* host one file of two chunks, at any time
\* ------------------------------------------------------------------------
\* the file a joiner picks is named after the joiner
FileOfJoiner(l) == MkFile(IF l = "r1" THEN "a" ELSE "b", CHUNK_SIZE + 1)

SendFileJoiner(l) ==
    /\ calls[l] = <<>>
    /\ SendFile(l, FileOfJoiner(l), NoIds)

InitMulti == InitBp

NextMulti ==
    \E l \in TwoLeaves :
        \/ SendFileJoiner(l)
        \/ \E k \in 1..MaxCalls :
              \/ SendFileAfterWait(l, k)
              \/ SendFileAfterRead(l, k)
              \/ SendFileAfterAcks(l, k)
        \/ Data(Hub, l)
        \/ Data(l, Hub)

SpecMulti == InitMulti /\ [][NextMulti]_vars

\* ------------------------------------------------------------------------
\* SpecDup: the hub and r1; one sendFile call whose targetClientIds names
\* r1 once or twice
\* ------------------------------------------------------------------------
IdsDup == {<<"r1">>, <<"r1", "r1">>}

\* one chunk, two chunks, five chunks
SizesDup == {1, CHUNK_SIZE + 1, 4 * CHUNK_SIZE + 1}

SendFileDup(i) ==
    /\ calls[i] = <<>>
    /\ \E s \in SizesDup, ids \in IdsDup : SendFile(i, MkFile(NextFileName(i), s), ids)

InitDup == InitWith({<<"r1", Hub>>, <<Hub, "r1">>})

NextDup ==
    \/ SendFileDup(Hub)
    \/ \E k \in 1..MaxCalls :
          \/ SendFileAfterWait(Hub, k)
          \/ SendFileAfterRead(Hub, k)
          \/ SendFileAfterAcks(Hub, k)
    \/ Data(Hub, "r1")
    \/ Data("r1", Hub)

SpecDup == InitDup /\ [][NextDup]_vars

\* ------------------------------------------------------------------------
\* SpecStatus: the hub broadcasts small files one after the other while two
\* leaves join, channels close or fail and the peer reports errors
\* ------------------------------------------------------------------------
SendFileBroadcast(i) ==
    /\ ~InProgress(i)
    /\ \E s \in SizesSmall : SendFile(i, MkFile(NextFileName(i), s), NoIds)

InitStatus == InitWith({})

NextStatus ==
    \/ SendFileBroadcast(Hub)
    \/ \E k \in 1..MaxCalls :
          \/ SendFileAfterWait(Hub, k)
          \/ SendFileAfterRead(Hub, k)
          \/ SendFileAfterAcks(Hub, k)
    \/ \E l \in TwoLeaves :
          \/ ChannelOpen(Hub, l) \/ ChannelOpen(l, Hub)
          \/ ChannelClose(Hub, l) \/ ChannelClose(l, Hub)
          \/ ChannelError(Hub, l) \/ ChannelError(l, Hub)
          \/ Data(Hub, l) \/ Data(l, Hub)
          \/ PeerError(l)
    \/ PeerError(Hub)

SpecStatus == InitStatus /\ [][NextStatus]_vars

\* ------------------------------------------------------------------------
\* SpecSecond: leaves join the hub, some of them open a second channel
\* under the same peer id, and channels close or fail; no file is sent
\* ------------------------------------------------------------------------
InitSecond == InitWith({})

NextSecond ==
    \E l \in Leaves :
        \/ ChannelOpen(Hub, l) \/ ChannelOpen(l, Hub)
        \/ SecondOpen(Hub, l)
        \/ ChannelClose(Hub, l) \/ ChannelError(Hub, l)
        \/ SecondClose(Hub, l) \/ SecondError(Hub, l)

SpecSecond == InitSecond /\ [][NextSecond]_vars

\* ------------------------------------------------------------------------
\* Vocabulary of the properties
\* ------------------------------------------------------------------------
\* the messages instance i has handled from p so far
Handled(i, p) == SubSeq(wire[<<p, i>>], 1, rcvd[<<i, p>>])

OfType(w, type) == SelectSeq(w, LAMBDA m : m.type = type)

IsTransferMsg(m) == m.type \in {"metadata", "chunk", "complete"}

TransferMsgs(w) == SelectSeq(w, IsTransferMsg)

\* ceil(S / C) as the least n with n * C >= S
IsCeilOf(n, S) == n * CHUNK_SIZE >= S /\ (n = 0 \/ (n - 1) * CHUNK_SIZE < S)

CeilChunks(S) == CHOOSE n \in 0..(S \div CHUNK_SIZE + 1) : IsCeilOf(n, S)

PayloadLen(d) == d.hi - d.lo

RECURSIVE Bytes(_)
\* the bytes of a Blob built from parts: adjacent ranges of one file are joined
Bytes(parts) ==
    IF Len(parts) <= 1 THEN parts
    ELSE LET rest == Bytes(Tail(parts))
             h == Head(parts)
         IN  IF h.name = Head(rest).name /\ h.hi = Head(rest).lo
             THEN <<[name |-> h.name, lo |-> h.lo, hi |-> Head(rest).hi] >> \o Tail(rest)
             ELSE <<h>> \o rest

\* the bytes of a whole source file
Whole(file) ==
    IF file.size = 0 THEN << >> ELSE << [name |-> file.name, lo |-> 0, hi |-> file.size] >>

\* exactly one sendFile call has been made in the whole system
SingleCall(i) ==
    /\ Len(calls[i]) = 1
    /\ \A j \in Insts \ {i} : calls[j] = <<>>

\* ------------------------------------------------------------------------
\* Properties of Spec
\* ------------------------------------------------------------------------
\* C3: a single sendFile to one connected receiver sends metadata with
\* totalChunks = ceil(S / C), and the file the receiver delivers is the
\* concatenation of the chunks 0 .. totalChunks-1 in index order and has
\* the bytes of the source file.
C3_RoundTrip ==
    SingleCall(Hub) =>
        LET c == calls[Hub][1] IN
        \A l \in OneLeaf :
            /\ \A x \in DOMAIN wire[<<Hub, l>>] :
                  LET m == wire[<<Hub, l>>][x] IN
                  m.type = "metadata" =>
                      /\ IsCeilOf(m.data.totalChunks, c.file.size)
                      /\ m.data.size = c.file.size
            /\ \A x \in DOMAIN inst[l].filesReceived :
                  LET f == inst[l].filesReceived[x]
                      chunks == OfType(wire[<<Hub, l>>], "chunk")
                  IN  /\ Len(f.parts) = CeilChunks(c.file.size)
                      /\ Len(chunks) = Len(f.parts)
                      /\ \A j \in DOMAIN f.parts :
                            \E y \in DOMAIN chunks :
                                chunks[y].index = j - 1 /\ chunks[y].data = f.parts[j]
                      /\ Bytes(f.parts) = Whole(c.file)
                      /\ f.name = c.file.name

C3_Witness ==
    /\ SingleCall(Hub)
    /\ calls[Hub][1].file.size = 10 * CHUNK_SIZE + 7
    /\ Len(inst["r1"].filesReceived) = 1
    /\ Len(inst["r1"].filesReceived[1].parts) = 11

\* C6: sendFile sends each open target exactly ceil(S / CHUNK_SIZE) chunk
\* messages; chunk i carries the bytes [i*C, min((i+1)*C, S)), so every
\* payload but the last has length C and the last has S mod C (or C); for
\* S = 600 KiB that is 3 chunk messages, the last of 88 * 1024 bytes.
C6_ChunkPayloads ==
    SingleCall(Hub) =>
        LET c == calls[Hub][1]
            S == c.file.size
        IN  \A x \in DOMAIN c.targets :
              LET t == c.targets[x]
                  chunks == OfType(wire[<<Hub, t>>], "chunk")
                  n == Len(chunks)
              IN  (c.pc \in {"await", "done"} /\ connState[<<Hub, t>>] = "open") =>
                    /\ IsCeilOf(n, S)
                    /\ \A j \in 1..n :
                          /\ chunks[j].index = j - 1
                          /\ chunks[j].data.name = c.file.name
                          /\ chunks[j].data.lo = (j - 1) * CHUNK_SIZE
                          /\ PayloadLen(chunks[j].data) =
                                IF j < n THEN CHUNK_SIZE
                                ELSE IF S % CHUNK_SIZE = 0 THEN CHUNK_SIZE
                                ELSE S % CHUNK_SIZE
                    /\ (S = 600 * 1024) =>
                          (n = 3 /\ PayloadLen(chunks[3].data) = 88 * 1024)

C6_Witness ==
    /\ SingleCall(Hub)
    /\ calls[Hub][1].file.size = 600 * 1024
    /\ calls[Hub][1].pc = "await"
    /\ connState[<<Hub, "r1">>] = "open"
    /\ Len(OfType(wire[<<Hub, "r1">>], "chunk")) = 3

\* the type and index of each message of a transfer, in the order written
Shape(w) ==
    [x \in DOMAIN w |->
        IF w[x].type = "chunk" THEN <<"chunk", w[x].index>> ELSE <<w[x].type, -1>>]

\* one 'metadata', the chunks 0 .. n-1 in ascending order, one 'complete'
ExpectedShape(n) ==
    [x \in 1..(n + 2) |->
        IF x = 1 THEN <<"metadata", -1>>
        ELSE IF x = n + 2 THEN <<"complete", -1>>
        ELSE <<"chunk", x - 2>>]

IsPrefix(a, b) == Len(a) <= Len(b) /\ a = SubSeq(b, 1, Len(a))

\* C7: for one sendFile call and one target, the messages written to the
\* target's channel are a prefix of: one 'metadata', the chunks 0, 1, ...,
\* totalChunks-1 once each in ascending order, one 'complete'; and they are
\* the whole sequence once the loop is over if the channel stayed open.
C7_MessageOrder ==
    SingleCall(Hub) =>
        LET c == calls[Hub][1]
            expected == ExpectedShape(CeilChunks(c.file.size))
        IN  \A t \in Leaves :
              LET shape == Shape(TransferMsgs(wire[<<Hub, t>>])) IN
              /\ IsPrefix(shape, expected)
              /\ (InTargets(c.targets, t) /\ c.pc \in {"await", "done"}
                    /\ connState[<<Hub, t>>] = "open") => shape = expected

C7_Witness ==
    /\ SingleCall(Hub)
    /\ calls[Hub][1].pc = "done"
    /\ calls[Hub][1].file.size = CHUNK_SIZE + 1
    /\ connState[<<Hub, "r1">>] = "open"
    /\ Len(wire[<<Hub, "r1">>]) = 4

\* the step handles a progress_ack of peer p on instance i, whose session
\* is registered
HandlesProgressAck(i, p) ==
    /\ rcvd'[<<i, p>>] = rcvd[<<i, p>>] + 1
    /\ wire[<<p, i>>][rcvd[<<i, p>>] + 1].type = "progress_ack"
    /\ inst[i].connections[p] # Null

\* C10 as stated: for every target session, progress.transferred after a
\* progress_ack is at least its value after the previous progress_ack of
\* the same target.
C10_Original ==
    [][\A p \in Leaves :
         (HandlesProgressAck(Hub, p) /\ inst[Hub].lastAck[p] # Null) =>
             inst'[Hub].connections[p].progress.transferred
                 >= inst[Hub].lastAck[p].transferred]_vars

\* C10 amended: progress.transferred after a progress_ack is at least its
\* value after the previous progress_ack of the same target when the
\* receiver wrote both acks during the same transfer (it handled no
\* 'metadata' between them).
C10_MonotoneWithinTransfer ==
    [][\A p \in Leaves :
         (/\ HandlesProgressAck(Hub, p)
          /\ inst[Hub].lastAck[p] # Null
          /\ inst[Hub].lastAck[p].xfer = wire[<<p, Hub>>][rcvd[<<Hub, p>>] + 1].xfer) =>
             inst'[Hub].connections[p].progress.transferred
                 >= inst[Hub].lastAck[p].transferred]_vars

C10_Witness ==
    /\ inst[Hub].lastAck["r1"] # Null
    /\ inst[Hub].lastAck["r1"].transferred = 8 * CHUNK_SIZE
    /\ inst[Hub].connections["r1"] # Null
    /\ inst[Hub].connections["r1"].progress.transferred = 8 * CHUNK_SIZE

\* the step is a call of sendFile on instance i
CallsSendFile(i) == Len(calls'[i]) = Len(calls[i]) + 1

\* C11: sendFile called without targetClientIds while the registry is
\* empty fails with the 'No active connections' error, stores the file in
\* pendingFile, sends no message on any channel and leaves overallStatus
\* unchanged.
C11_BroadcastToNobody ==
    [][(CallsSendFile(Hub) /\ Registered(Hub) = {}) =>
          LET c == calls'[Hub][Len(calls'[Hub])] IN
          c.ids = NoIds =>
              /\ c.pc = "rejected"
              /\ inst'[Hub].pendingFile = c.file
              /\ wire' = wire
              /\ inst'[Hub].overallStatus = inst[Hub].overallStatus]_vars

\* a broadcast rejected after the only receiver had closed its channel:
\* the second file is pending, the status is the one the close left
C11_Witness ==
    /\ Len(calls[Hub]) = 2
    /\ calls[Hub][2].pc = "rejected"
    /\ calls[Hub][2].ids = NoIds
    /\ inst[Hub].pendingFile = calls[Hub][2].file
    /\ inst[Hub].overallStatus = "completed"
    /\ connState[<<Hub, "r1">>] = "closed"

\* C12: every sendFile attempted with zero eligible receivers reports a
\* no-target error to the caller, also a call whose explicitly requested
\* targetClientIds all fail to resolve to a registered session.
C12_NoTargetAlwaysReported ==
    \A k \in DOMAIN calls[Hub] :
        calls[Hub][k].targets = <<>> => calls[Hub][k].pc = "rejected"

\* the parts of a delivered file are all chunks of the file it is named
\* after, in place
OwnChunksOnly(f) ==
    \A j \in DOMAIN f.parts :
        /\ f.parts[j].name = f.name
        /\ f.parts[j].lo = (j - 1) * CHUNK_SIZE

\* C20: after the receiver assembles a file, its metadata is null, its
\* chunk table is empty and receivedChunkCount is 0; for two transfers sent
\* one after the other on the same channel, the second delivered file
\* contains only chunks of the second transfer (the k-th file sent is
\* named FileNames[k]).
C20_CleanAfterAssembly ==
    [][\A l \in OneLeaf :
         /\ inst'[l].filesReceived # inst[l].filesReceived =>
               /\ inst'[l].fileMetadata = Null
               /\ inst'[l].receivedChunks = <<>>
               /\ inst'[l].receivedChunkCount = 0
         /\ \A x \in DOMAIN inst'[l].filesReceived :
               LET f == inst'[l].filesReceived[x] IN
               /\ OwnChunksOnly(f)
               /\ \E k \in DOMAIN calls[Hub] :
                     /\ calls[Hub][k].file.name = f.name
                     /\ Bytes(f.parts) = Whole(calls[Hub][k].file)]_vars

\* two files of eleven chunks delivered one after the other; the receiver
\* is clean after the second
C20_Witness ==
    /\ Len(inst["r1"].filesReceived) = 2
    /\ inst["r1"].filesReceived[1].name = "a"
    /\ inst["r1"].filesReceived[2].name = "b"
    /\ Len(inst["r1"].filesReceived[2].parts) = 11
    /\ inst["r1"].fileMetadata = Null
    /\ inst["r1"].receivedChunks = <<>>
    /\ inst["r1"].receivedChunkCount = 0

\* ------------------------------------------------------------------------
\* Properties of SpecFan
\* ------------------------------------------------------------------------
\* instance i has handled a transfer_complete_ack of peer t after the first
\* base messages of t
AckHandledSince(i, t, base) ==
    \E x \in (base + 1)..rcvd[<<i, t>>] : wire[<<t, i>>][x].type = "transfer_complete_ack"

AckedTargets(i, c) ==
    {t \in PeersOf(i) : InTargets(c.targets, t) /\ AckHandledSince(i, t, c.rcvdAtStart[t])}

\* C1: a sendFile call that targets N registered receivers does not
\* resolve before the sender has handled a transfer_complete_ack from each
\* of the N targets; while a target has not acknowledged, the call is
\* pending.
C1_ResolvesAfterAllAcks ==
    \A k \in DOMAIN calls[Hub] :
        LET c == calls[Hub][k] IN
        c.pc = "done" =>
            \A x \in DOMAIN c.targets : c.targets[x] \in AckedTargets(Hub, c)

\* three targets, two have acknowledged, the third has closed its channel
\* without writing an ack: the call is waiting
C1_Witness ==
    /\ calls[Hub] # <<>>
    /\ calls[Hub][1].pc = "await"
    /\ Len(calls[Hub][1].targets) = 3
    /\ AckedTargets(Hub, calls[Hub][1]) = {"r1", "r2"}
    /\ connState[<<"r3", Hub>>] = "closed"
    /\ OfType(wire[<<"r3", Hub>>], "transfer_complete_ack") = <<>>

\* target x of call c has lost its session (channel close or error) and
\* its completion promise is not fulfilled
RemovedUnacked(i, c, x) ==
    /\ inst[i].connections[c.targets[x]] = Null
    /\ ~c.resolved[x]

\* C14: if a target's session is removed from the registry after sendFile
\* has selected it and before its transfer_complete_ack is handled, the
\* completion promise of that target is never fulfilled and the call never
\* resolves: from such a state on, the promise stays unfulfilled and the
\* call does not pass Promise.all.
C14_RemovedTargetHangsCall ==
    [][\A k \in DOMAIN calls[Hub] : \A x \in DOMAIN calls[Hub][k].targets :
         RemovedUnacked(Hub, calls[Hub][k], x) =>
             /\ ~calls'[Hub][k].resolved[x]
             /\ inst'[Hub].connections[calls[Hub][k].targets[x]] = Null
             /\ calls'[Hub][k].pc \notin {"done", "rejected", "returned"}]_vars

\* the session of r3 was removed by a channel error; r1 and r2 have
\* acknowledged, the ack of r3 has been handled too, and the call waits
C14_Witness ==
    /\ calls[Hub] # <<>>
    /\ calls[Hub][1].pc = "await"
    /\ calls[Hub][1].targets = <<"r1", "r2", "r3">>
    /\ calls[Hub][1].resolved = <<TRUE, TRUE, FALSE>>
    /\ inst[Hub].connections["r3"] = Null
    /\ connState[<<Hub, "r3">>] = "open"
    /\ AckHandledSince(Hub, "r3", calls[Hub][1].rcvdAtStart["r3"])

\* ------------------------------------------------------------------------
\* Properties of SpecBp
\* ------------------------------------------------------------------------
ChunkCount(w) == Len(OfType(w, "chunk"))

\* the step writes a 'chunk' message to some channel of instance i
SendsChunk(i) ==
    \E p \in PeersOf(i) : ChunkCount(wire'[<<i, p>>]) > ChunkCount(wire[<<i, p>>])

Congested(i, c) ==
    \E x \in DOMAIN c.targets :
        /\ connState[<<i, c.targets[x]>>] = "open"
        /\ bufferedAmount[<<i, c.targets[x]>>] > MAX_BUFFERED_AMOUNT

\* C5 as stated: while the buffered-bytes metric of a target's open channel
\* is above the 16 MiB mark, no 'chunk' message is sent to any target.
C5_Original ==
    [][\A k \in DOMAIN calls[Hub] :
         (calls[Hub][k].pc \in {"sleep", "read", "poll"} /\ Congested(Hub, calls[Hub][k]))
             => ~SendsChunk(Hub)]_vars

\* C5 amended: a 'chunk' message is sent only in a loop iteration whose
\* backpressure check, made before the chunk is read, found the metric of
\* every open target at or below the mark; while the loop polls, nothing
\* is sent.
C5_ChunkOnlyAfterCheck ==
    [][/\ \A k \in DOMAIN calls[Hub] :
            (calls'[Hub][k].pc = "read" /\ calls'[Hub][k] # calls[Hub][k])
                => ~Congested(Hub, calls[Hub][k])
       /\ SendsChunk(Hub) =>
            \E k \in DOMAIN calls[Hub] :
                /\ calls[Hub][k].pc = "read"
                /\ calls'[Hub][k].chunkIndex = calls[Hub][k].chunkIndex + 1]_vars

\* the loop polls after the first chunk: one open target is above the mark,
\* the other is not
C5_Witness ==
    /\ calls[Hub] # <<>>
    /\ calls[Hub][1].pc = "poll"
    /\ calls[Hub][1].chunkIndex = 1
    /\ connState[<<Hub, "r1">>] = "open" /\ connState[<<Hub, "r2">>] = "open"
    /\ bufferedAmount[<<Hub, "r1">>] <= MAX_BUFFERED_AMOUNT
    /\ bufferedAmount[<<Hub, "r2">>] > MAX_BUFFERED_AMOUNT
    /\ ChunkCount(wire[<<Hub, "r1">>]) = 1

\* ------------------------------------------------------------------------
\* Properties of SpecRx
\* ------------------------------------------------------------------------
\* the step is instance i handling a message of this type from p
HandlesType(i, p, type) ==
    /\ rcvd'[<<i, p>>] = rcvd[<<i, p>>] + 1
    /\ wire[<<p, i>>][rcvd[<<i, p>>] + 1].type = type

\* C2: the receiver invokes the file-received callback only while handling
\* a 'complete' message; handling 'metadata' or 'chunk', also the chunk
\* that makes receivedChunkCount equal totalChunks, delivers nothing.
C2_DeliversOnlyOnComplete ==
    [][\A i \in Insts :
         inst'[i].filesReceived # inst[i].filesReceived
             => \E p \in PeersOf(i) : HandlesType(i, p, "complete")]_vars

\* all chunks are in, the last message handled was a chunk, nothing delivered
C2_Witness ==
    /\ inst["r1"].fileMetadata # Null
    /\ inst["r1"].receivedChunkCount = 3
    /\ inst["r1"].fileMetadata.totalChunks = 3
    /\ inst["r1"].filesReceived = <<>>
    /\ rcvd[<<"r1", Hub>>] = 4
    /\ wire[<<Hub, "r1">>][4].type = "chunk"

\* position in h of the n-th 'metadata' message
MetadataPos(h, n) ==
    CHOOSE x \in DOMAIN h :
        /\ h[x].type = "metadata"
        /\ Cardinality({y \in 1..x : h[y].type = "metadata"}) = n

\* position of the first 'complete' after position x
CompletePos(h, x) ==
    CHOOSE y \in (x + 1)..Len(h) :
        h[y].type = "complete" /\ \A z \in (x + 1)..(y - 1) : h[z].type # "complete"

\* the messages handled between the 'metadata' that began the transfer of
\* a delivered file and the 'complete' that delivered it
Segment(h, f) ==
    LET x == MetadataPos(h, f.xfer) IN SubSeq(h, x + 1, CompletePos(h, x) - 1)

\* the chunk messages 0 .. n-1, each once, in some order
IsChunkPermutation(seg, n) ==
    /\ Len(seg) = n
    /\ \A y \in DOMAIN seg : seg[y].type = "chunk"
    /\ \A j \in 0..(n - 1) : \E y \in DOMAIN seg : seg[y].index = j

PayloadOf(seg, j) == seg[CHOOSE y \in DOMAIN seg : seg[y].index = j].data

\* C4: the receiver places each chunk by its index: for totalChunks = 3,
\* the chunks handled in any arrival order and then 'complete' deliver the
\* payloads of the indices 0, 1, 2 in that order, which is what handling
\* them in the order 0, 1, 2 delivers.
C4_PlacedByIndex ==
    LET h == Handled("r1", Hub) IN
    \A x \in DOMAIN inst["r1"].filesReceived :
        LET f == inst["r1"].filesReceived[x]
            seg == Segment(h, f)
        IN  IsChunkPermutation(seg, 3) =>
                /\ f.parts = <<PayloadOf(seg, 0), PayloadOf(seg, 1), PayloadOf(seg, 2)>>
                /\ Bytes(f.parts) = Whole(FileRx)

\* a file delivered after the chunks arrived in the order 2, 0, 1
C4_Witness ==
    /\ Len(inst["r1"].filesReceived) = 1
    /\ rcvd[<<"r1", Hub>>] = 5
    /\ Shape(Handled("r1", Hub)) =
          <<<<"metadata", -1>>, <<"chunk", 2>>, <<"chunk", 0>>, <<"chunk", 1>>,
            <<"complete", -1>>>>

\* C9: a duplicate 'complete' handled after the receiver has assembled a
\* transfer and reset its state does not invoke the file-received callback
\* and leaves the reassembly state as it was.
C9_DuplicateCompleteNoOp ==
    [][\A i \in Insts : \A p \in PeersOf(i) :
         (/\ HandlesType(i, p, "complete")
          /\ inst[i].fileMetadata = Null
          /\ inst[i].filesReceived # <<>>) =>
             /\ inst'[i].filesReceived = inst[i].filesReceived
             /\ inst'[i].fileMetadata = inst[i].fileMetadata
             /\ inst'[i].receivedChunks = inst[i].receivedChunks
             /\ inst'[i].receivedChunkCount = inst[i].receivedChunkCount]_vars

\* two 'complete' in a row were handled, the first one delivered the file
C9_Witness ==
    LET h == Handled("r1", Hub) IN
    /\ Len(h) >= 3
    /\ h[Len(h)].type = "complete"
    /\ h[Len(h) - 1].type = "complete"
    /\ h[Len(h) - 2].type # "complete"
    /\ Len(inst["r1"].filesReceived) = 1
    /\ inst["r1"].fileMetadata = Null

\* ------------------------------------------------------------------------
\* Properties of SpecOverlap
\* ------------------------------------------------------------------------
\* a percentage below 100 (0 / 0 is NaN, which is not below 100)
Below100(pct) == pct.den > 0 /\ pct.num < pct.den

\* the last update of the progress of i's session for p was the one of the
\* transfer_complete_ack handler
ShowsCompleted(i, p) ==
    /\ inst[i].connections[p] # Null
    /\ inst[i].connections[p].progress.percentage = Pct(1, 1)

\* C16: when the sender handles a target's transfer_complete_ack it sets
\* that target's progress to transferred = total and percentage = 100
\* (the observer is notified with this value before the promise is
\* fulfilled), and from then until the next sendFile resets that target no
\* progress notification for it carries a percentage below 100: the
\* handler of a progress_ack, which notifies the observer with the progress
\* it computes, computes no percentage below 100 for a completed target.
C16_NoProgressBelow100AfterAck ==
    [][\A p \in Leaves :
         /\ (HandlesType(Hub, p, "transfer_complete_ack")
                /\ inst[Hub].connections[p] # Null) =>
               /\ inst'[Hub].connections[p].progress.transferred
                      = inst[Hub].connections[p].progress.total
               /\ inst'[Hub].connections[p].progress.percentage = Pct(1, 1)
         /\ (HandlesProgressAck(Hub, p) /\ ShowsCompleted(Hub, p)) =>
               ~Below100(inst'[Hub].connections[p].progress.percentage)]_vars

\* every message written on a channel of instance i or to it is handled
Quiet(i) ==
    \A p \in PeersOf(i) :
        /\ rcvd[<<i, p>>] = Len(wire[<<p, i>>])
        /\ rcvd[<<p, i>>] = Len(wire[<<i, p>>])

\* C17: each sendFile call creates its own completion promise per target,
\* fulfilled exactly once and only by the transfer_complete_ack that
\* answers the same call's 'complete', also when two calls to the same
\* target overlap: a promise is not fulfilled before its call has written
\* 'complete', and once every call has written 'complete' and every
\* message is handled, the promise of every call is fulfilled (for the
\* targets whose channel never closed or failed).
C17_OwnPromisePerCall ==
    /\ \A k \in DOMAIN calls[Hub] : \A x \in DOMAIN calls[Hub][k].targets :
           calls[Hub][k].resolved[x] => calls[Hub][k].pc \in {"await", "done"}
    /\ (Quiet(Hub) /\ faults = 0
          /\ \A k \in DOMAIN calls[Hub] : calls[Hub][k].pc \in {"await", "done"}) =>
           \A k \in DOMAIN calls[Hub] : \A x \in DOMAIN calls[Hub][k].targets :
               calls[Hub][k].resolved[x]

\* C19: in every reachable receiver state with active metadata,
\* receivedChunkCount is at most metadata.totalChunks and every index
\* present in the chunk table lies in [0, totalChunks).  (The largest index
\* present in the array receivedChunks is its length minus one.)
C19_ReassemblyBounds ==
    \A l \in Leaves :
        inst[l].fileMetadata # Null =>
            /\ inst[l].receivedChunkCount <= inst[l].fileMetadata.totalChunks
            /\ Len(inst[l].receivedChunks) <= inst[l].fileMetadata.totalChunks

\* C8: the receiver sends one transfer_complete_ack per transfer and only
\* after it has assembled and delivered that transfer's file: a 'complete'
\* that assembles nothing sends no ack, so the acks written equal the
\* files delivered.
C8_OneAckPerDeliveredFile ==
    \A l \in Leaves :
        Len(OfType(wire[<<l, Hub>>], "transfer_complete_ack")) = Len(inst[l].filesReceived)

\* ------------------------------------------------------------------------
\* Properties of SpecJoin
\* ------------------------------------------------------------------------
\* C13: when a channel opens while a file is pending for broadcast, the
\* file is sent to the newly joined target only; a target that is already
\* mid-transfer is written no additional 'metadata', 'chunk' or 'complete'
\* because of the join.  Every call of SpecJoin is made by a join, so each
\* target is written the messages of one transfer of the file and no more.
C13_JoinSendsToJoinerOnly ==
    \A l \in Leaves :
        IsPrefix(Shape(TransferMsgs(wire[<<Hub, l>>])),
                 ExpectedShape(CeilChunks(SelectedFile.size)))

\* ------------------------------------------------------------------------
\* Properties of SpecLoopFault
\* ------------------------------------------------------------------------
\* the channel of instance i to t has closed or failed
ClosedOrErrored(i, t) ==
    connState[<<i, t>>] = "closed" \/ inst[i].connections[t] = Null

\* C15: when one target's channel closes or errors while sendFile is in
\* its send loop, sendFile raises no error from the loop, sends nothing
\* further to that target, and still sends every remaining chunk and the
\* 'complete' message to each target whose channel is still open.
C15_FaultedTargetIsDropped ==
    [][\A k \in DOMAIN calls[Hub] : \A x \in DOMAIN calls[Hub][k].targets :
         LET t == calls[Hub][k].targets[x] IN
         /\ calls'[Hub][k].pc # "rejected"
         /\ ClosedOrErrored(Hub, t) => wire'[<<Hub, t>>] = wire[<<Hub, t>>]
         /\ (calls'[Hub][k].pc \in {"await", "done"} /\ ~ClosedOrErrored(Hub, t)') =>
                Shape(TransferMsgs(wire'[<<Hub, t>>]))
                    = ExpectedShape(CeilChunks(calls[Hub][k].file.size))]_vars

\* ------------------------------------------------------------------------
\* Properties of SpecLive
\* ------------------------------------------------------------------------
\* the call has resolved and every target has delivered the file once
ResolvedAndDelivered(i) ==
    /\ calls[i] # <<>>
    /\ calls[i][1].pc = "done"
    /\ \A x \in DOMAIN calls[i][1].targets :
          LET l == calls[i][1].targets[x] IN
          /\ Len(inst[l].filesReceived) = 1
          /\ inst[l].filesReceived[1].name = calls[i][1].file.name
          /\ Bytes(inst[l].filesReceived[1].parts) = Whole(calls[i][1].file)

\* C18: for a single sendFile call to a non-empty target set, if every
\* target's channel stays open, every channel's buffered amount eventually
\* falls to or below the high-water mark and messages are delivered
\* reliably in order, then every receiver eventually delivers the file
\* exactly once and the call eventually resolves.
C18_EventuallyResolves ==
    /\ [](\A l \in Leaves : Len(inst[l].filesReceived) <= 1)
    /\ (calls[Hub] # <<>>) ~> ResolvedAndDelivered(Hub)

\* the two-chunk broadcast has resolved, both receivers hold the file
C18_Witness ==
    /\ ResolvedAndDelivered(Hub)
    /\ calls[Hub][1].file.size = CHUNK_SIZE + 1
    /\ Len(calls[Hub][1].targets) = 2
    /\ \A l \in TwoLeaves : Len(inst[l].filesReceived[1].parts) = 2

\* C22: once the channel between a receiver and its sender has closed, the
\* receiver holds nothing of an unfinished transfer: its chunk table is
\* empty and its metadata is null
C22_NoDataAfterClose ==
    \A i \in Insts : \A p \in PeersOf(i) :
        connState[<<i, p>>] = "closed" =>
            /\ inst[i].receivedChunks = <<>>
            /\ inst[i].fileMetadata = Null

\* ------------------------------------------------------------------------
\* Properties of SpecUp
\* ------------------------------------------------------------------------
\* what i writes to p in this step
Written(i, p) ==
    SubSeq(wire'[<<i, p>>], Len(wire[<<i, p>>]) + 1, Len(wire'[<<i, p>>]))

\* C23: handling a 'chunk' while a transfer is active (metadata set), the
\* receiver writes one progress_ack to the sender when the chunk brings
\* receivedChunkCount to a multiple of 4, carrying
\* min(receivedChunkCount * CHUNK_SIZE, metadata.size), and writes no
\* progress_ack on any other chunk
C23_AckEveryFourthChunk ==
    [][\A i \in Insts : \A p \in PeersOf(i) :
         (HandlesType(i, p, "chunk") /\ inst[i].fileMetadata # Null) =>
             LET n == inst'[i].receivedChunkCount
                 acks == OfType(Written(i, p), "progress_ack")
             IN  IF n % ACK_EVERY = 0
                 THEN /\ Len(acks) = 1
                      /\ acks[1].transferred = Min(n * CHUNK_SIZE, inst[i].fileMetadata.size)
                 ELSE acks = <<>>
      ]_vars

\* ------------------------------------------------------------------------
\* Properties of SpecClock
\* ------------------------------------------------------------------------
\* a percentage of exactly 100
Is100(pct) == pct.den > 0 /\ pct.num = pct.den

\* the progress observer of i is called in this step
Notifies(i) == inst'[i].notifyCount = inst[i].notifyCount + 1

\* C24: a chunk makes the receiver notify its progress observer only if
\* more than 50 ms of its clock have passed since its previous notification
\* (or there was none), or if the chunk brings receivedChunkCount to
\* metadata.totalChunks; and the chunk that brings the count to totalChunks
\* always notifies, at once and with the value of that chunk; a chunk
\* notifies at most once
C24_ThrottledExceptFinal ==
    [][\A i \in Leaves :
         (HandlesType(i, Hub, "chunk") /\ inst[i].fileMetadata # Null
              /\ inst[i].onProgressChange) =>
             LET final == inst'[i].receivedChunkCount = inst[i].fileMetadata.totalChunks
                 last == inst[i].lastNotified
             IN  /\ inst'[i].notifyCount \in {inst[i].notifyCount, inst[i].notifyCount + 1}
                 /\ Notifies(i) =>
                        \/ last = Null
                        \/ inst[i].now - last.at > THROTTLE_MS
                        \/ final
                 /\ final =>
                        /\ Notifies(i)
                        /\ inst'[i].lastNotified.at = inst[i].now
                        /\ Is100(inst'[i].lastNotified.progress.percentage)
      ]_vars

\* r1 has handled the four chunks within one millisecond: the first and the
\* last notified, the two between them did not
C24_Witness ==
    /\ inst["r1"].receivedChunkCount = 4
    /\ inst["r1"].now = Epoch
    /\ inst["r1"].notifyCount = 2
    /\ Is100(inst["r1"].lastNotified.progress.percentage)

\* ------------------------------------------------------------------------
\* Progress values handed to the observers
\* ------------------------------------------------------------------------
\* a percentage within [0, 100] (0 / 0 is NaN, x / 0 is Infinity)
Within100(pct) == pct.den > 0 /\ 0 <= pct.num /\ pct.num <= pct.den

\* C25: every TransferProgress value handed to the progress observer of a
\* receiver or of a sender has its percentage within [0, 100] and its
\* transferred at most its total
C25_ObservedProgressInRange ==
    \A i \in Insts :
        inst[i].lastNotified # Null =>
            /\ Within100(inst[i].lastNotified.progress.percentage)
            /\ 0 <= inst[i].lastNotified.progress.transferred
            /\ inst[i].lastNotified.progress.transferred
                   <= inst[i].lastNotified.progress.total

\* ------------------------------------------------------------------------
\* Lock-step of the fan-out (SpecBp)
\* ------------------------------------------------------------------------
\* the indexes of the chunks of the file called name that i has sent to t
ChunkIndexesSent(i, t, name) ==
    LET cs == SelectSeq(wire[<<i, t>>],
                        LAMBDA m : m.type = "chunk" /\ m.data.name = name)
    IN  [x \in DOMAIN cs |-> cs[x].index]

\* C26: at every suspension point of a sendFile call (and after it), each
\* target whose channel is open has been sent exactly the chunks
\* 0 .. chunkIndex - 1 of the call's file, in this order, so all open
\* targets have been sent the same number of chunks and none is ahead of
\* another; a target whose channel has closed has been sent a prefix of them
C26_LockStep ==
    \A k \in DOMAIN calls[Hub] :
        LET c == calls[Hub][k] IN
        \A x \in DOMAIN c.targets :
            LET sent == ChunkIndexesSent(Hub, c.targets[x], c.file.name) IN
            /\ Len(sent) <= c.chunkIndex
            /\ \A y \in DOMAIN sent : sent[y] = y - 1
            /\ connState[<<Hub, c.targets[x]>>] = "open" => Len(sent) = c.chunkIndex

\* the loop is suspended in its backpressure poll before the second chunk;
\* both targets are open and have been sent chunk 0
C26_Witness ==
    /\ calls[Hub] # <<>>
    /\ calls[Hub][1].pc = "poll"
    /\ calls[Hub][1].chunkIndex = 1
    /\ \A t \in TwoLeaves :
          /\ connState[<<Hub, t>>] = "open"
          /\ ChunkIndexesSent(Hub, t, "a") = <<0>>

\* ------------------------------------------------------------------------
\* Properties of SpecDestroy
\* ------------------------------------------------------------------------
\* destroy() runs at i in this step
Destroys(i) == inst[i].peer # Null /\ inst'[i].peer = Null

\* the client-connect or client-disconnect observer of i is called once in
\* this step, with p
Logs(i, kind, p) == inst'[i].clientLog = Append(inst[i].clientLog, <<kind, p>>)

\* C21: a session for p enters the registry of i in exactly the steps in
\* which i's channel to p fires 'open', and the client-connect observer
\* (where one is installed) is then called once with p; a step in which
\* the channel fires 'close' or 'error' leaves no session for p and calls
\* the client-disconnect observer once with p; a session leaves the
\* registry in no other step but destroy(), and the observers are called
\* in no other step; getConnectedClients lists exactly the sessions of the
\* registry
C21_RegistryFollowsChannel ==
    [][\A i \in Insts : \A p \in PeersOf(i) :
         LET was == inst[i].connections[p] # Null
             is == inst'[i].connections[p] # Null
         IN  /\ ChannelOpen(i, p) =>
                    /\ inst'[i].connections[p] = NewClientInfo
                    /\ inst[i].onClientConnect => Logs(i, "connect", p)
             /\ (~was /\ is) => ChannelOpen(i, p)
             /\ (ChannelClose(i, p) \/ ChannelError(i, p)) =>
                    /\ ~is
                    /\ inst[i].onClientDisconnect => Logs(i, "disconnect", p)
             /\ (was /\ ~is) =>
                    (ChannelClose(i, p) \/ ChannelError(i, p) \/ Destroys(i))
             /\ Registered(i)' = {q \in PeersOf(i) : inst'[i].connections[q] # Null}
             /\ inst'[i].clientLog # inst[i].clientLog =>
                    \/ Destroys(i)
                    \/ \E q \in PeersOf(i) :
                          ChannelOpen(i, q) \/ ChannelClose(i, q) \/ ChannelError(i, q)
      ]_vars

\* the hub has seen r1 join and leave: both observers were called and the
\* session is gone
C21_Witness ==
    /\ inst[Hub].clientLog = <<<<"connect", "r1">>, <<"disconnect", "r1">> >>
    /\ Registered(Hub) = {}
    /\ inst[Hub].peer # Null

\* call k of i is suspended in sendFile
Pending(c) == c.pc \in {"sleep", "read", "poll", "await"}

\* C27: destroy() closes the channel of every session, leaves the registry
\* empty and pendingFile null, and a sendFile call that was waiting for the
\* acknowledgements is no longer pending when destroy() has returned
C27_DestroyAbortsWaits ==
    [][\A i \in Insts :
         Destroys(i) =>
             /\ \A p \in Registered(i) : connState'[<<i, p>>] = "closed"
             /\ Registered(i)' = {}
             /\ inst'[i].pendingFile = Null
             /\ \A k \in DOMAIN calls[i] :
                    calls[i][k].pc = "await" => ~Pending(calls'[i][k])
      ]_vars

\* the part of C27 about the channels, the registry and pendingFile
DestroyClears ==
    [][\A i \in Insts :
         Destroys(i) =>
             /\ \A p \in Registered(i) : connState'[<<i, p>>] = "closed"
             /\ Registered(i)' = {}
             /\ inst'[i].pendingFile = Null
      ]_vars

\* a call of i completes in this step
Completes(i, k) ==
    /\ k \in DOMAIN calls[i]
    /\ calls[i][k].pc = "await"
    /\ calls'[i][k].pc = "done"

\* the call that starts in this step
Started(i) == calls'[i][Len(calls'[i])]

\* C29: a sendFile call with explicit targetClientIds leaves pendingFile as
\* it was, when it finds no target and when it completes; pendingFile
\* changes only in three kinds of step: a broadcast call that finds no
\* session sets it to its file, a broadcast call that completes sets it to
\* null, destroy() sets it to null
C29_PendingFileFrame ==
    [][\A i \in Insts :
         LET before == inst[i].pendingFile
             after == inst'[i].pendingFile
         IN  /\ (CallsSendFile(i) /\ Started(i).ids # NoIds) => after = before
             /\ \A k \in DOMAIN calls[i] :
                    (Completes(i, k) /\ calls[i][k].ids # NoIds) => after = before
             /\ after # before =>
                    \/ /\ CallsSendFile(i)
                       /\ Started(i).ids = NoIds
                       /\ Registered(i) = {}
                       /\ after = Started(i).file
                    \/ /\ \E k \in DOMAIN calls[i] :
                              Completes(i, k) /\ calls[i][k].ids = NoIds
                       /\ after = Null
                    \/ /\ Destroys(i)
                       /\ after = Null
      ]_vars

\* a broadcast found no session and stored file a; r1 then joined and an
\* explicit call for file b has completed: a is still pending
C29_Witness ==
    /\ Len(calls[Hub]) = 2
    /\ calls[Hub][1].pc = "rejected"
    /\ calls[Hub][2].pc = "done"
    /\ calls[Hub][2].ids # NoIds
    /\ inst[Hub].pendingFile # Null
    /\ inst[Hub].pendingFile.name = "a"

\* ------------------------------------------------------------------------
\* 'complete' on an incomplete chunk table (SpecRx)
\* ------------------------------------------------------------------------
\* the chunks a chunk table holds, in index order, without its holes
Present(table) == SelectSeq(table, LAMBDA d : d # Hole)

\* C28: when the receiver handles 'complete' during a transfer whose chunk
\* table holds fewer than metadata.totalChunks chunks, it delivers one file,
\* named by the metadata and built from the table as it is (the chunks
\* present, in index order; a hole below the highest index shows in the
\* Blob as the text "undefined"), writes transfer_complete_ack to the
\* sender and resets metadata, table and count; no branch rejects
C28_IncompleteIsDelivered ==
    [][\A i \in Leaves :
         (/\ HandlesType(i, Hub, "complete")
          /\ inst[i].fileMetadata # Null
          /\ Len(Present(inst[i].receivedChunks)) < inst[i].fileMetadata.totalChunks) =>
             /\ Len(inst'[i].filesReceived) = Len(inst[i].filesReceived) + 1
             /\ LET f == inst'[i].filesReceived[Len(inst'[i].filesReceived)] IN
                    /\ f.name = inst[i].fileMetadata.name
                    /\ f.parts = inst[i].receivedChunks
             /\ Written(i, Hub) = <<MsgCompleteAck>>
             /\ inst'[i].fileMetadata = Null
             /\ inst'[i].receivedChunks = <<>>
             /\ inst'[i].receivedChunkCount = 0
      ]_vars

\* r1 handled metadata (three chunks), chunk 2 alone and 'complete': the
\* file delivered has two holes and one chunk, and the ack was written
C28_Witness ==
    /\ Shape(Handled("r1", Hub)) = <<<<"metadata", -1>>, <<"chunk", 2>>, <<"complete", -1>>>>
    /\ Len(inst["r1"].filesReceived) = 1
    /\ inst["r1"].filesReceived[1].parts =
          <<Hole, Hole, [name |-> "a", lo |-> 2 * CHUNK_SIZE, hi |-> 2 * CHUNK_SIZE + 1]>>
    /\ OfType(wire[<<"r1", Hub>>], "transfer_complete_ack") # <<>>
    /\ inst["r1"].fileMetadata = Null

\* ------------------------------------------------------------------------
\* Properties of SpecTwin
\* ------------------------------------------------------------------------
\* r1 and r2 have handled the same sequence of incoming messages
SameInput == Handled("r1", Hub) = Handled("r2", Hub)

\* the transferred values of the progress_ack messages i has written
AckPayloads(i) ==
    LET acks == OfType(wire[<<i, Hub>>], "progress_ack")
    IN  [x \in DOMAIN acks |-> acks[x].transferred]

\* C30 as stated: two receivers that differ only in their CHUNK_SIZE and
\* have handled the same message sequence have delivered the same files,
\* have reported the same progress values and have sent the same
\* progress_ack payloads.
C30_Original ==
    SameInput =>
        /\ inst["r1"].filesReceived = inst["r2"].filesReceived
        /\ inst["r1"].notifyCount = inst["r2"].notifyCount
        /\ inst["r1"].lastNotified = inst["r2"].lastNotified
        /\ AckPayloads("r1") = AckPayloads("r2")

\* C30: two receivers that differ only in their CHUNK_SIZE and have handled
\* the same message sequence hold the same reassembly state, have delivered
\* the same files, have notified their observers the same number of times,
\* last with the same percentage and total, and have written the same
\* number of progress_ack; the j-th progress_ack of a receiver carries
\* min(4 * j * its own CHUNK_SIZE, size)
C30_SameFileOwnEstimate ==
    /\ SameInput =>
          /\ inst["r1"].filesReceived = inst["r2"].filesReceived
          /\ inst["r1"].receivedChunks = inst["r2"].receivedChunks
          /\ inst["r1"].receivedChunkCount = inst["r2"].receivedChunkCount
          /\ inst["r1"].fileMetadata = inst["r2"].fileMetadata
          /\ inst["r1"].notifyCount = inst["r2"].notifyCount
          /\ inst["r1"].lastNotified # Null =>
                /\ inst["r2"].lastNotified # Null
                /\ inst["r1"].lastNotified.progress.percentage =
                       inst["r2"].lastNotified.progress.percentage
                /\ inst["r1"].lastNotified.progress.total =
                       inst["r2"].lastNotified.progress.total
          /\ Len(AckPayloads("r1")) = Len(AckPayloads("r2"))
          /\ Len(wire[<<"r1", Hub>>]) = Len(wire[<<"r2", Hub>>])
    /\ \A i \in TwoLeaves : \A j \in DOMAIN AckPayloads(i) :
          \A k \in DOMAIN calls[Hub] :
              AckPayloads(i)[j] =
                  Min(ACK_EVERY * j * inst[i].chunkSize, calls[Hub][k].file.size)

\* both receivers have handled the whole transfer and delivered the file;
\* the progress_ack of the fourth chunk carried 1 MiB from r1 and 64 KiB
\* from r2
C30_Witness ==
    /\ SameInput
    /\ rcvd[<<"r1", Hub>>] = 7
    /\ Len(inst["r1"].filesReceived) = 1
    /\ Bytes(inst["r2"].filesReceived[1].parts) = Whole(MkFile("a", 4 * CHUNK_SIZE + 1))
    /\ AckPayloads("r1") = <<4 * CHUNK_SIZE>>
    /\ AckPayloads("r2") = <<4 * CHUNK_SIZE_16K>>

\* ------------------------------------------------------------------------
\* Properties of SpecMulti
\* ------------------------------------------------------------------------
\* C31: every file delivered on the host consists only of chunks of the
\* file its metadata named, that is, of chunks received from the one peer
\* whose 'metadata' started the transfer (each joiner sends a file of its
\* own), also when the two joiners send at overlapping times
C31_FileFromOnePeer ==
    \A x \in DOMAIN inst[Hub].filesReceived :
        LET f == inst[Hub].filesReceived[x] IN
        \A j \in DOMAIN f.parts : f.parts[j].name = f.name

\* ------------------------------------------------------------------------
\* Properties of SpecDup
\* ------------------------------------------------------------------------
\* C32: a sendFile call whose targetClientIds names r1, once or more than
\* once, writes r1 each message of the transfer once (one 'metadata', each chunk
\* once in ascending order, one 'complete'), and once the hub has handled
\* r1's transfer_complete_ack all completion promises of the call are
\* fulfilled
C32_DuplicateIdSentOnce ==
    \A k \in DOMAIN calls[Hub] :
        LET c == calls[Hub][k] IN
        (c.ids # NoIds /\ c.targets # <<>>) =>
            /\ IsPrefix(Shape(TransferMsgs(wire[<<Hub, "r1">>])),
                        ExpectedShape(CeilChunks(c.file.size)))
            /\ "r1" \in AckedTargets(Hub, c) => PromiseAll(c.resolved)

\* the part of C32 about the completion alone
DuplicateIdResolves ==
    \A k \in DOMAIN calls[Hub] :
        LET c == calls[Hub][k] IN
        (c.ids # NoIds /\ "r1" \in AckedTargets(Hub, c)) => PromiseAll(c.resolved)

\* ------------------------------------------------------------------------
\* The resolver and the 'complete' message (SpecJoin)
\* ------------------------------------------------------------------------
\* C33: a registered session to which the hub has written a 'complete'
\* holds a completion resolver (the call stored it before it wrote the
\* 'complete'), and whenever the hub handles a transfer_complete_ack of a
\* peer whose session is registered, the handler finds a resolver and
\* fulfils the promise it belongs to
C33_AckFindsResolver ==
    /\ [](\A p \in Registered(Hub) :
             OfType(wire[<<Hub, p>>], "complete") # <<>> =>
                 inst[Hub].connections[p].completionResolve # NoResolve)
    /\ [][\A p \in Leaves :
             (HandlesType(Hub, p, "transfer_complete_ack") /\ p \in Registered(Hub)) =>
                 LET r == inst[Hub].connections[p].completionResolve IN
                 /\ r # NoResolve
                 /\ calls'[Hub][r[1]].resolved[r[2]]
         ]_vars

\* the hub has handled the transfer_complete_ack of r1 and the promise of
\* r1 in the first call is fulfilled
C33_Witness ==
    /\ calls[Hub] # <<>>
    /\ calls[Hub][1].targets = <<"r1">>
    /\ calls[Hub][1].resolved[1]
    /\ OfType(Handled(Hub, "r1"), "transfer_complete_ack") # <<>>

\* ------------------------------------------------------------------------
\* Closed targets and backpressure (SpecBp)
\* ------------------------------------------------------------------------
\* C34: whenever the send loop decides between polling and reading the
\* next chunk, it polls exactly if a target whose channel is open has its
\* buffered amount above the mark; the buffered amount of a target whose
\* channel is not open has no part in the decision, so with only such
\* targets above the mark the loop goes on and the open targets are sent
\* the next chunk
C34_ClosedTargetNeverPauses ==
    [][\A k \in DOMAIN calls[Hub] :
         LET c == calls[Hub][k]
             c1 == calls'[Hub][k]
         IN  (c1 # c /\ c1.pc \in {"read", "poll"}) =>
                 (c1.pc = "poll" <=> Congested(Hub, c))
      ]_vars

\* the channel of r1 closed before the first chunk with its buffered amount
\* above the mark; r2 has been sent both chunks
C34_Witness ==
    /\ calls[Hub] # <<>>
    /\ connState[<<Hub, "r1">>] = "closed"
    /\ bufferedAmount[<<Hub, "r1">>] > MAX_BUFFERED_AMOUNT
    /\ ChunkIndexesSent(Hub, "r1", "a") = <<>>
    /\ ChunkIndexesSent(Hub, "r2", "a") = <<0, 1>>

\* ------------------------------------------------------------------------
\* Chunks outside a transfer (SpecRx)
\* ------------------------------------------------------------------------
\* the position of the last 'metadata' in h, 0 if there is none
LastMetadata(h) ==
    LET ms == {x \in DOMAIN h : h[x].type = "metadata"}
    IN  IF ms = {} THEN 0 ELSE CHOOSE x \in ms : \A y \in ms : y <= x

RECURSIVE TableOf(_)
\* the chunk table that results from placing the chunks cs, in this order,
\* into an empty table
TableOf(cs) ==
    IF cs = <<>> THEN <<>>
    ELSE LET last == cs[Len(cs)]
         IN  PlaceChunk(TableOf(SubSeq(cs, 1, Len(cs) - 1)), last.index, last.data)

\* the chunks i has handled from p after the last 'metadata'
ChunksOfTransfer(i, p) ==
    LET h == Handled(i, p)
    IN  OfType(SubSeq(h, LastMetadata(h) + 1, Len(h)), "chunk")

\* C35: handling 'metadata' leaves the chunk table empty and
\* receivedChunkCount 0, and every file delivered is built from exactly the
\* chunks handled after the 'metadata' that started its transfer: a chunk
\* handled before the first 'metadata', or between an assembly and the next
\* 'metadata', is in no file delivered later
C35_StrayChunkNeverDelivered ==
    [][\A i \in Leaves :
         /\ HandlesType(i, Hub, "metadata") =>
                /\ inst'[i].receivedChunks = <<>>
                /\ inst'[i].receivedChunkCount = 0
         /\ Len(inst'[i].filesReceived) > Len(inst[i].filesReceived) =>
                /\ inst[i].fileMetadata # Null
                /\ inst'[i].filesReceived[Len(inst'[i].filesReceived)].parts =
                       TableOf(ChunksOfTransfer(i, Hub))
      ]_vars

\* r1 handled chunk 0 without metadata, then metadata, chunk 1 and
\* 'complete': the file delivered has a hole at index 0 and chunk 1
C35_Witness ==
    /\ Shape(Handled("r1", Hub)) =
          <<<<"chunk", 0>>, <<"metadata", -1>>, <<"chunk", 1>>, <<"complete", -1>>>>
    /\ Len(inst["r1"].filesReceived) = 1
    /\ inst["r1"].filesReceived[1].parts =
          <<Hole, [name |-> "a", lo |-> CHUNK_SIZE, hi |-> 2 * CHUNK_SIZE]>>

\* ------------------------------------------------------------------------
\* Properties of SpecStatus
\* ------------------------------------------------------------------------
\* a channel of i fires 'open', 'close' or 'error' in this step
ChannelEvent(i) ==
    \E p \in PeersOf(i) : ChannelOpen(i, p) \/ ChannelClose(i, p) \/ ChannelError(i, p)

\* i starts a sendFile call or handles 'metadata' or 'complete' in this step
MovesOn(i) ==
    \/ CallsSendFile(i)
    \/ \E p \in PeersOf(i) : HandlesType(i, p, "metadata") \/ HandlesType(i, p, "complete")

\* C36 as stated: while overallStatus is 'completed' a channel 'open',
\* 'close' or 'error' leaves it unchanged, while it is 'transferring' a
\* channel 'open' leaves it unchanged, and the status leaves 'completed'
\* only in a step that starts a sendFile call or handles 'metadata' or
\* 'complete'.
C36_Original ==
    [][\A i \in Insts :
         LET before == inst[i].overallStatus
             after == inst'[i].overallStatus
         IN  /\ (before = "completed" /\ ChannelEvent(i)) => after = before
             /\ (before = "transferring" /\ \E p \in PeersOf(i) : ChannelOpen(i, p)) =>
                    after = before
             /\ (before = "completed" /\ after # before) => MovesOn(i)
      ]_vars

\* C36: as C36_Original, except that the status also leaves 'completed' in
\* a step in which the peer reports an error, which sets it to 'error'
C36_StatusFrame ==
    [][\A i \in Insts :
         LET before == inst[i].overallStatus
             after == inst'[i].overallStatus
         IN  /\ (before = "completed" /\ ChannelEvent(i)) => after = before
             /\ (before = "transferring" /\ \E p \in PeersOf(i) : ChannelOpen(i, p)) =>
                    after = before
             /\ (before = "completed" /\ after # before) =>
                    \/ MovesOn(i) /\ after = "transferring"
                    \/ PeerError(i) /\ after = "error"
      ]_vars

\* r1 has received a file, then its channel closed: the status is still
\* 'completed'; r2 joined the hub after the hub's call had started
C36_Witness ==
    /\ inst["r1"].overallStatus = "completed"
    /\ Len(inst["r1"].filesReceived) = 1
    /\ connState[<<"r1", Hub>>] = "closed"
    /\ inst[Hub].overallStatus = "completed"
    /\ calls[Hub][1].targets = <<"r1">>
    /\ "r2" \in Registered(Hub)

\* ------------------------------------------------------------------------
\* Properties of SpecSecond
\* ------------------------------------------------------------------------
\* the channel that the session of p at i holds
ChannelOf(i, p) ==
    IF inst[i].connections[p].connection = 2 THEN <<i, p, 2>> ELSE <<i, p>>

\* C37: the registry entry of a peer id is removed only in a step in
\* which the channel registered under that id closes or fails; the close
\* of the older channel of a peer leaves the session of its newer, still
\* open channel in the registry.
C37_OnlyOwnChannelRemoves ==
    [][\A p \in Leaves :
         (p \in Registered(Hub) /\ inst'[Hub].connections[p] = Null) =>
            \/ connState[ChannelOf(Hub, p)] = "open" /\ connState'[ChannelOf(Hub, p)] = "closed"
            \/ connState[ChannelOf(Hub, p)] = "open" /\ connState' = connState
      ]_vars

====
